---- MODULE Spec2Model ----
(***************************************************************************)
(* A model of the system-scheduling stage of bevy_ecs:                     *)
(*   crates/bevy_ecs/src/schedule/stage.rs       SystemStage, Stage::run   *)
(*   crates/bevy_ecs/src/schedule/ambiguity_detection.rs  find_ambiguities *)
(*                                                                         *)
(* Spec       the stage: registration of systems and run criteria, and the *)
(*            loop of Stage::run, one action per step of the loop; the     *)
(*            systems are registered with and without run criteria.        *)
(* SpecOrder  the same stage, the systems registered with every ordering   *)
(*            declaration of OrderingOptions and no run criteria.          *)
(* SpecBuffers the same stage with set_apply_buffers and calls of          *)
(*            SystemStage::apply_buffers between the runs.                 *)
(* SpecWorlds the same stage run with two worlds.                          *)
(* SpecAmb    find_ambiguities applied to bounded, topologically sorted    *)
(*            vectors of system containers.                                *)
(* SpecReport SystemStage::ambiguities and report_ambiguities on the four  *)
(*            segments of an initialized stage.                            *)
(* SpecTicks  ComponentTicks (crates/bevy_ecs/src/component/mod.rs) under  *)
(*            a wrapping change tick of TickBits bits.                     *)
(* SpecBundles Bundles::init_info and BundleInfo::write_components         *)
(*            (crates/bevy_ecs/src/bundle.rs).                             *)
(* SpecQuery  the component access collected by QueryState::new            *)
(*            (crates/bevy_ecs/src/query/fetch.rs, state.rs).              *)
(* SpecMatch  the archetypes a QueryState matches: matches_archetype of    *)
(*            the fetch states, the caches per relation filter and the     *)
(*            items of for_each (query/fetch.rs, state.rs).                *)
(* SpecParams the initialization of the Res and ResMut parameters of one   *)
(*            system (crates/bevy_ecs/src/system/system_param.rs).         *)
(* SpecKinds  the Relationships registry of kinds and relationships        *)
(*            (crates/bevy_ecs/src/component/mod.rs).                      *)
(* SpecApp    apply_state_transition (crates/bevy_ecs/src/schedule/        *)
(*            state.rs) and CoreSchedule::outer_loop (crates/bevy_app/     *)
(*            src/lib.rs) on one world.                                    *)
(* SpecCriteria the stage with a labelled run criteria and the systems     *)
(*            that name its label.                                         *)
(* SpecPipes  the stage with piped run criteria (RunCriteria::pipe).       *)
(* SpecDiscard the stage of systems whose run criteria give way to an      *)
(*            earlier one of the same label.                               *)
(* SpecTermination, SpecTerminationFair  the loops of Stage::run under     *)
(*            run criteria that do not ask to be checked again forever.    *)
(* SpecCheck  SystemStage::check_change_ticks under a change tick of       *)
(*            StageTickBits bits.                                          *)
(* SpecConflict the access conflicts of the queries of                     *)
(*            world/tests.rs query_conflict_tests.                         *)
(* SpecEq     PartialEq and Hash of SystemOrderAmbiguity.                  *)
(* SpecBatches, SpecBatchesFair  QueryState::par_for_each_unchecked_manual *)
(*            (query/state.rs) on a task pool that runs every batch.       *)
(* SpecSync   entity_sync_system and the observers of SyncToRenderWorld    *)
(*            (crates/bevy_render/src/world_sync.rs).                      *)
(*                                                                         *)
(* Indices are 1-based; 0 stands for Option::None.                         *)
(***************************************************************************)
EXTENDS Integers, Sequences, FiniteSets, TLC

\* ---------------------------------------------------------------- bounds
MaxContainers == 3   \* systems and run criteria registered in one stage
MaxGated == 3        \* systems that bring their run criteria along
MaxTerms == 3        \* terms of a query of the conflict tests
StageTickBits == 5   \* width of the change tick the stage checks (32 in the source)
MaxConflicts == 2    \* conflicts of a SystemOrderAmbiguity that is compared
MaxRows == 2         \* rows of a table that par_for_each walks
MaxMainEntities == 2 \* entities the main world spawns before and between syncs
MaxPending == 3      \* records that wait in PendingSyncEntity
MaxEntities == 1     \* spawn commands issued over the life of the world
MaxAmbSystems == 3   \* systems handed to find_ambiguities
MaxSegmentSystems == 2   \* systems of one segment when its ambiguities are reported
TickBits == 3        \* width of a change tick, in place of the 32 bits of u32
MaxBundles == 2      \* bundle types registered in one world
MaxQueryDepth == 2   \* depth of tuple nesting of a query
MaxArchetypes == 2   \* archetypes created after the empty archetype of World::new
MaxFilters == 2      \* relation filters one QueryState has a cache for
MaxParams == 3       \* parameters of one system
MaxKinds == 3        \* kinds in the Relationships registry
MaxRelationships == 3   \* relationships in the Relationships registry
MaxReturned == 3     \* distinct calls on the registry that returned an id
MaxSchedules == 3    \* OnEnter, OnExit and OnTransition schedules in one world
MaxUpdates == 3      \* calls of outer_loop over the life of the app

\* ------------------------------------------------------------- vocabulary
ShouldRun == {"Yes", "No", "YesAndCheckAgain", "NoAndCheckAgain"}
CheckAgain == {"YesAndCheckAgain", "NoAndCheckAgain"}
Executors == {"ParallelExecutor", "SingleThreadedExecutor"}
Segments == {"Parallel", "ExclusiveAtStart", "ExclusiveBeforeCommands", "ExclusiveAtEnd"}
ExclusivePhases == {"RunExclusiveAtStart", "RunExclusiveBeforeBuffers", "RunExclusiveAtEnd"}
IterationPhases ==
    ExclusivePhases \cup {"RunParallelBatch", "ApplyBuffers", "ReevaluateLoopingCriteria"}

\* The ordering declarations a system is registered with: its labels and
\* the labels it asks to run before and after.  Together they produce edges
\* from after() and from before(), a chain of three, a system after its own
\* label and a cycle of two.
Unordered == [labels |-> {1}, before |-> {}, after |-> {}]

PlainSystems ==
    (Segments \X {Unordered})
      \cup { <<"Parallel", [labels |-> {2}, before |-> {}, after |-> {1}]>> }

OrderingOptions ==
    { [labels |-> {1}, before |-> {},  after |-> {}],
      [labels |-> {2}, before |-> {},  after |-> {1}],
      [labels |-> {1}, before |-> {},  after |-> {2}],
      [labels |-> {2}, before |-> {1}, after |-> {}],
      [labels |-> {1}, before |-> {},  after |-> {1}] }

\* The ordered systems go to the segment the executor runs and to one of
\* the segments the stage runs itself.
OrderedSystems == {"Parallel", "ExclusiveAtEnd"} \X OrderingOptions

\* The run criteria a system is registered with: none, or a criteria of its
\* own given by descriptor.
NoCriteria ==
    { [kind |-> "None",       label |-> 0, after |-> 0, strategy |-> "Panic"] }

CriteriaOptions ==
    { [kind |-> "None",       label |-> 0, after |-> 0, strategy |-> "Panic"],
      [kind |-> "Descriptor", label |-> 0, after |-> 0, strategy |-> "Panic"] }

\* The run criteria descriptors handed to add_system_run_criteria.
CriteriaDescriptors ==
    { [kind |-> "Descriptor", label |-> 0, after |-> 0, strategy |-> "Panic"] }

\* A run criteria labelled "every other time", as tests::parallel_run_criteria
\* registers it: with label() or with label_discard_if_duplicate().
LabelledCriteria ==
    { [kind |-> "Descriptor", label |-> 1, after |-> 0, strategy |-> "Panic"],
      [kind |-> "Descriptor", label |-> 1, after |-> 0, strategy |-> "Discard"] }

\* The run criteria of the "Piping criteria" part of that test: a criteria
\* with label 1, RunCriteria::pipe from it with label 2 and without label,
\* and a pipe from the piped one.
PipedCriteria ==
    { [kind |-> "Descriptor", label |-> 1, after |-> 0, strategy |-> "Panic"],
      [kind |-> "Descriptor", label |-> 2, after |-> 1, strategy |-> "Panic"],
      [kind |-> "Descriptor", label |-> 0, after |-> 1, strategy |-> "Panic"],
      [kind |-> "Descriptor", label |-> 0, after |-> 2, strategy |-> "Panic"] }

\* The run criteria the systems of the "Discarding extra criteria with
\* matching labels" part bring along, and a criteria without label as the
\* first system of the test has it.  The name is that of the system of the
\* criteria (RunCriteriaContainer::name), filled in at registration.
DiscardOptions ==
    { [kind |-> "Descriptor", label |-> 1, after |-> 0, strategy |-> "Discard", name |-> 0],
      [kind |-> "Descriptor", label |-> 0, after |-> 0, strategy |-> "Panic", name |-> 0] }

\* The run criteria of the systems of that test: none, the label of the
\* criteria, or a criteria of that label that gives way to an earlier one.
GatedOptions ==
    { [kind |-> "None",       label |-> 0, after |-> 0, strategy |-> "Panic"],
      [kind |-> "Label",      label |-> 1, after |-> 0, strategy |-> "Panic"],
      [kind |-> "Descriptor", label |-> 1, after |-> 0, strategy |-> "Discard"] }

VARIABLES
    executor,                       \* which ParallelSystemExecutor is installed
    run_criteria,                   \* SystemStage.run_criteria
    exclusive_at_start,             \* SystemStage.exclusive_at_start
    exclusive_before_commands,      \* SystemStage.exclusive_before_commands
    exclusive_at_end,               \* SystemStage.exclusive_at_end
    parallel,                       \* SystemStage.parallel
    systems_modified,               \* SystemStage.systems_modified
    uninitialized_run_criteria,     \* SystemStage.uninitialized_run_criteria
    uninitialized_at_start,
    uninitialized_before_commands,
    uninitialized_at_end,
    uninitialized_parallel,
    apply_buffers,                  \* SystemStage.apply_buffers
    pc,                             \* position of Stage::run
    stage_should_run,               \* last result of the stage run criteria
    run_stage_loop,                 \* local of run
    default_should_run,             \* local of run
    cursor,                         \* index of the running for loop
    first_iteration,                \* the loop body runs for the first time in this pass
    buffers_applied,                \* the buffers were applied in this iteration
    entities,                       \* entities spawned in the world
    world_id,                       \* SystemStage.world_id (0: None)
    run_world,                      \* the world handed to the last call of run
    amb_systems,                    \* SpecAmb: the systems argument
    amb_level,                      \* SpecAmb: the report_level argument
    amb_result,                     \* SpecAmb: the returned vector
    rep_stage,                      \* SpecReport: the four vectors of the stage
    rep_level,                      \* SpecReport: the report_level argument
    rep_ambiguities,                \* SpecReport: what SystemStage::ambiguities returned
    rep_outcome,                    \* SpecReport: how report_ambiguities ended
    change_tick,                    \* SpecTicks: World.change_tick
    last_change_tick,               \* SpecTicks: the last change tick of the system
    component_ticks,                \* SpecTicks: the ComponentTicks of one component
    tick_query,                     \* SpecTicks: the last is_added / is_changed call
    tick_check,                     \* SpecTicks: the last check_ticks call
    kinds,                          \* SpecBundles: Relationships.kinds / component_indices
    relationships,                  \* SpecBundles: Relationships.relationships
    bundle_infos,                   \* SpecBundles: Bundles.bundle_infos
    bundle_ids,                     \* SpecBundles: Bundles.bundle_ids
    bundle_call,                    \* SpecBundles: the last call of init_info
    table,                          \* SpecBundles: the row of the entity in its table
    sparse_sets,                    \* SpecBundles: the entry of the entity in the sparse sets
    write_log,                      \* SpecBundles: the ids written by the last write_components
    query_shape,                    \* SpecQuery: the fetch of the last QueryState::new
    query_access,                   \* SpecQuery: its component_access
    query_outcome,                  \* SpecQuery: how the call ended
    relation_storage,               \* SpecMatch: storage type of the relation kind R
    archetypes,                     \* SpecMatch: World.archetypes
    match_query,                    \* SpecMatch: the fetch of the QueryState
    current_relation_filter,        \* SpecMatch: QueryState.current_relation_filter
    relation_filter_accesses,       \* SpecMatch: QueryState.relation_filter_accesses
    examined,                       \* SpecMatch: what the last call handed to new_archetype
    last_call,                      \* SpecMatch: the last call on the world or the QueryState
    fetched,                        \* SpecMatch: the items the last for_each produced
    param_resources,                \* SpecParams: the resource types World::initialize_resource knows
    param_inits,                    \* SpecParams: the parameters of the system initialized so far
    param_access,                   \* SpecParams: SystemMeta.component_access_set.combined_access
    param_outcome,                  \* SpecParams: how the last SystemParamState::init ended
    world_relationships,            \* SpecKinds: World.relationships, the Relationships registry
    relationships_call,             \* SpecKinds: the last call on the registry and what it returned
    returned,                       \* SpecKinds: what the calls on the registry returned so far
    world_schedules,                \* SpecApp: the labels of the schedules the world holds
    state_resource,                 \* SpecApp: the resource State<S>
    next_state_resource,            \* SpecApp: the resource NextState<S> (<<>>: None)
    next_state_changed,             \* SpecApp: NextState<S> was marked as changed by the last call
    schedules_ran,                  \* SpecApp: the schedules the last apply_state_transition ran, in order
    transition_call,                \* SpecApp: what the last apply_state_transition found
    run_at_least_once,              \* SpecApp: the Local<bool> of outer_loop
    outer_ran,                      \* SpecApp: the schedules every call of outer_loop ran, in order
    world_change_tick,              \* SpecCheck: World.change_tick of the world the stage runs on
    last_tick_check,                \* SpecCheck: SystemStage.last_tick_check
    stage_systems,                  \* SpecCheck: the number of systems of the stage
    ticks_since_check,              \* SpecCheck: the ticks that went by since the last maintenance pass
    last_check,                     \* SpecCheck: the last call of check_change_ticks
    eq_call,                        \* SpecEq: the last comparison of two SystemOrderAmbiguity values
    par_pc,                         \* SpecBatches: where par_for_each_unchecked_manual stands
    par_input,                      \* SpecBatches: the matched tables or archetypes, the filter and batch_size
    par_cursor,                     \* SpecBatches: the table or archetype of the for loop
    par_offset,                     \* SpecBatches: offset of the while loop
    par_tasks,                      \* SpecBatches: the batches spawned on the scope that did not run yet
    par_calls,                      \* SpecBatches: how often func was called for a row
    main_spawned,                   \* SpecSync: the entities the main world has spawned so far
    main_alive,                     \* SpecSync: the live entities of the main world
    sync_marked,                    \* SpecSync: the main entities that carry SyncToRenderWorld
    render_entity,                  \* SpecSync: RenderEntity of the main entities that carry one
    main_entity,                    \* SpecSync: MainEntity of the live entities of the render world
    render_spawned,                 \* SpecSync: the entities the render world has spawned so far
    pending,                        \* SpecSync: PendingSyncEntity.records
    sync_state,                     \* SpecSync: whether entity_sync_system ran since the last change
    marker_history                  \* SpecSync: the entities that ever got the marker, lost it alive, got a RenderEntity

stageVars == <<executor, run_criteria, exclusive_at_start,
               exclusive_before_commands, exclusive_at_end, parallel,
               systems_modified, uninitialized_run_criteria,
               uninitialized_at_start, uninitialized_before_commands,
               uninitialized_at_end, uninitialized_parallel, apply_buffers,
               pc, stage_should_run, run_stage_loop, default_should_run,
               cursor, first_iteration, buffers_applied, entities>>
ambVars == <<amb_systems, amb_level, amb_result>>
repVars == <<rep_stage, rep_level, rep_ambiguities, rep_outcome>>
tickVars == <<change_tick, last_change_tick, component_ticks, tick_query, tick_check>>
worldVars == <<world_id, run_world>>
bundleVars == <<kinds, relationships, bundle_infos, bundle_ids, bundle_call,
                table, sparse_sets, write_log>>
queryVars == <<query_shape, query_access, query_outcome>>
matchVars == <<relation_storage, archetypes, match_query, current_relation_filter,
               relation_filter_accesses, examined, last_call, fetched>>
paramVars == <<param_resources, param_inits, param_access, param_outcome>>
kindVars == <<world_relationships, relationships_call, returned>>
appVars == <<world_schedules, state_resource, next_state_resource, next_state_changed, schedules_ran, transition_call, run_at_least_once, outer_ran>>
checkVars == <<world_change_tick, last_tick_check, stage_systems, ticks_since_check, last_check>>
eqVars == <<eq_call>>
parVars == <<par_pc, par_input, par_cursor, par_offset, par_tasks, par_calls>>
syncVars == <<main_spawned, main_alive, sync_marked, render_entity, main_entity, render_spawned, pending, sync_state, marker_history>>
laterVars == <<matchVars, paramVars, kindVars, appVars, checkVars, eqVars, parVars, syncVars>>
pureVars == <<ambVars, repVars, tickVars, bundleVars, queryVars, laterVars>>
nonStageVars == <<pureVars, worldVars>>
nonAmbVars == <<stageVars, worldVars, repVars, tickVars, bundleVars, queryVars, laterVars>>
nonRepVars == <<stageVars, worldVars, ambVars, tickVars, bundleVars, queryVars, laterVars>>
nonTickVars == <<stageVars, worldVars, ambVars, repVars, bundleVars, queryVars, laterVars>>
nonBundleVars == <<stageVars, worldVars, ambVars, repVars, tickVars, queryVars, laterVars>>
nonQueryVars == <<stageVars, worldVars, ambVars, repVars, tickVars, bundleVars, laterVars>>
earlierVars == <<stageVars, worldVars, ambVars, repVars, tickVars, bundleVars, queryVars>>
nonMatchVars == <<earlierVars, paramVars, kindVars, appVars, checkVars, eqVars, parVars, syncVars>>
nonParamVars == <<earlierVars, matchVars, kindVars, appVars, checkVars, eqVars, parVars, syncVars>>
nonKindVars == <<earlierVars, matchVars, paramVars, appVars, checkVars, eqVars, parVars, syncVars>>
nonAppVars == <<earlierVars, matchVars, paramVars, kindVars, checkVars, eqVars, parVars, syncVars>>
nonCheckVars == <<earlierVars, matchVars, paramVars, kindVars, appVars, eqVars, parVars, syncVars>>
nonEqVars == <<earlierVars, matchVars, paramVars, kindVars, appVars, checkVars, parVars, syncVars>>
nonParVars == <<earlierVars, matchVars, paramVars, kindVars, appVars, checkVars, eqVars, syncVars>>
nonSyncVars == <<earlierVars, matchVars, paramVars, kindVars, appVars, checkVars, eqVars, parVars>>
vars == <<earlierVars, laterVars>>

\* --------------------------------------------------------------- helpers
Range(s) == { s[i] : i \in DOMAIN s }

\* The sequences that list every element of the set S once.
RECURSIVE Orderings(_)
Orderings(S) ==
    IF S = {} THEN { <<>> }
    ELSE UNION { { <<x>> \o p : p \in Orderings(S \ {x}) } : x \in S }

\* ------------------------------------------------------------ containers
\* ParallelSystemContainer / ExclusiveSystemContainer::from_descriptor.
\* id is the position at which the system was registered in its segment;
\* ran records what happened to the system in the current iteration.
SystemContainer(id, ordering) ==
    [ id |-> id,
      labels |-> ordering.labels,
      before |-> ordering.before,
      after |-> ordering.after,
      run_criteria |-> 0,
      run_criteria_label |-> 0,
      dependencies |-> {},
      should_run |-> FALSE,
      buffer |-> 0,
      ran |-> "pending" ]

\* RunCriteriaContainer::from_descriptor.
RunCriteriaContainer(label, after, strategy, name) ==
    [ label |-> label,
      name |-> name,
      inner |-> IF after = 0 THEN "Single" ELSE "Piped",
      after |-> after,
      parent |-> 0,
      input |-> "No",
      should_run |-> "Yes",
      strategy |-> strategy ]

SegmentSystems(seg) ==
    CASE seg = "Parallel" -> parallel
      [] seg = "ExclusiveAtStart" -> exclusive_at_start
      [] seg = "ExclusiveBeforeCommands" -> exclusive_before_commands
      [] seg = "ExclusiveAtEnd" -> exclusive_at_end

NumSystems ==
    Len(parallel) + Len(exclusive_at_start)
        + Len(exclusive_before_commands) + Len(exclusive_at_end)

NumContainers == NumSystems + Len(run_criteria)

\* ------------------------------------------------------------ graph_utils
\* graph_utils::build_dependency_graph: for every node, the nodes it must
\* come after: those carrying a label it is `after`, and those that are
\* `before` one of its labels.
build_dependency_graph(nodes) ==
    [ i \in 1..Len(nodes) |->
        { d \in 1..Len(nodes) :
            \/ nodes[d].labels \cap nodes[i].after # {}
            \/ nodes[d].before \cap nodes[i].labels # {} } ]

\* graph_utils::topological_order: Ok(order) for an order in which every
\* node comes after its dependencies (which of them depends on the
\* iteration order of a hash map), Err(GraphCycles) when there is none.
topological_order(graph) ==
    LET n == Len(graph)
        valid == { p \in Orderings(1..n) :
                     \A k \in 1..n : \A d \in graph[p[k]] :
                        \E j \in 1..(k - 1) : p[j] = d }
    IN  IF valid # {}
        THEN { [ok |-> TRUE, order |-> p] : p \in valid }
        ELSE { [ok |-> FALSE, order |-> [k \in 1..n |-> k]] }

\* order_inverted[index].0 of process_systems and process_run_criteria: the
\* position in the sorted vector of the element that was at index.
order_inverted(order) ==
    [ i \in 1..Len(order) |-> CHOOSE k \in 1..Len(order) : order[k] = i ]

\* The GraphNode view of a RunCriteriaContainer.
CriteriaNode(c) ==
    [ labels |-> IF c.label = 0 THEN {} ELSE {c.label},
      before |-> {},
      after |-> IF c.after = 0 THEN {} ELSE {c.after} ]

CriteriaNodes(rc) == [ i \in 1..Len(rc) |-> CriteriaNode(rc[i]) ]

\* -------------------------------------------------------- initialization
CriteriaLabels == {1, 2}

\* The HashMap collected from uninitialized_run_criteria: 0 when the index
\* is not in the map, the strategy otherwise.
UninitializedCriteria(uninit, index) ==
    IF \E k \in 1..Len(uninit) : uninit[k][1] = index
    THEN (uninit[CHOOSE k \in 1..Len(uninit) : uninit[k][1] = index])[2]
    ELSE "Initialized"

\* Faulty variant of InitializeCriteria: of two criteria of one label the
\* earlier one gives way, the new one takes its place.
RECURSIVE InitializeCriteriaKeepsNew(_, _, _, _, _, _)
InitializeCriteriaKeepsNew(rc, uninit, index, criteria_labels, new_indices, out) ==
    IF index > Len(rc)
    THEN [panic |-> FALSE, run_criteria |-> out, new_indices |-> new_indices]
    ELSE
      LET container == rc[index]
          new_index == Len(out) + 1
          strategy == UninitializedCriteria(uninit, index)
          duplicate == /\ strategy # "Initialized"
                       /\ container.label # 0
                       /\ criteria_labels[container.label] # 0
      IN  IF duplicate /\ strategy = "Panic"
          THEN [panic |-> TRUE, run_criteria |-> rc, new_indices |-> new_indices]
          ELSE IF duplicate
          THEN InitializeCriteriaKeepsNew(rc, uninit, index + 1, criteria_labels,
                   Append(new_indices, criteria_labels[container.label]),
                   [out EXCEPT ![criteria_labels[container.label]] = container])
          ELSE InitializeCriteriaKeepsNew(rc, uninit, index + 1,
                   IF container.label # 0
                   THEN [criteria_labels EXCEPT ![container.label] = new_index]
                   ELSE criteria_labels,
                   Append(new_indices, new_index), Append(out, container))

\* The filter_map of initialize_systems over the run criteria: drops the
\* new criteria whose label is in use (Discard) or panics (Panic), and
\* records for every old index the index that now stands for it.
RECURSIVE InitializeCriteria(_, _, _, _, _, _)
InitializeCriteria(rc, uninit, index, criteria_labels, new_indices, out) ==
    IF index > Len(rc)
    THEN [panic |-> FALSE, run_criteria |-> out, new_indices |-> new_indices]
    ELSE
      LET container == rc[index]
          new_index == Len(out) + 1
          strategy == UninitializedCriteria(uninit, index)
          duplicate == /\ strategy # "Initialized"
                       /\ container.label # 0
                       /\ criteria_labels[container.label] # 0
      IN  IF duplicate /\ strategy = "Panic"
          THEN [panic |-> TRUE, run_criteria |-> rc, new_indices |-> new_indices]
          ELSE IF duplicate
          THEN InitializeCriteria(rc, uninit, index + 1, criteria_labels,
                   Append(new_indices, criteria_labels[container.label]), out)
          ELSE InitializeCriteria(rc, uninit, index + 1,
                   IF container.label # 0
                   THEN [criteria_labels EXCEPT ![container.label] = new_index]
                   ELSE criteria_labels,
                   Append(new_indices, new_index), Append(out, container))

\* The four loops of initialize_systems over the newly inserted systems:
\* their run criteria indices are corrected by new_indices.
InitializeContainers(systems, uninitialized, new_indices) ==
    [ i \in 1..Len(systems) |->
        IF i \in Range(uninitialized) /\ systems[i].run_criteria # 0
        THEN [systems[i] EXCEPT !.run_criteria = new_indices[systems[i].run_criteria]]
        ELSE systems[i] ]

\* ------------------------------------------------- orders and dependencies
\* update_run_criteria_indices of process_run_criteria.
update_run_criteria_indices(systems, inverted) ==
    [ i \in 1..Len(systems) |->
        IF systems[i].run_criteria # 0
        THEN [systems[i] EXCEPT !.run_criteria = inverted[systems[i].run_criteria]]
        ELSE systems[i] ]

\* Faulty variant of process_run_criteria: the parents are resolved to the
\* positions of registration and the criteria are left in that order.
process_run_criteria_unsorted(rc, result) ==
    LET labels == [ l \in CriteriaLabels |->
                      IF \E i \in 1..Len(rc) : rc[i].label = l
                      THEN CHOOSE i \in 1..Len(rc) : rc[i].label = l
                      ELSE 0 ]
        piped == [ i \in 1..Len(rc) |->
                     IF rc[i].inner = "Piped"
                     THEN [rc[i] EXCEPT !.parent = labels[rc[i].after]]
                     ELSE rc[i] ]
    IN  IF ~result.ok
        THEN [err |-> TRUE, panic |-> FALSE, labels |-> [l \in CriteriaLabels |-> 0],
              inverted |-> [i \in 1..Len(rc) |-> i], run_criteria |-> rc]
        ELSE [err |-> FALSE,
              panic |-> \E i \in 1..Len(rc) : rc[i].inner = "Piped" /\ labels[rc[i].after] = 0,
              labels |-> labels,
              inverted |-> [i \in 1..Len(rc) |-> i],
              run_criteria |-> piped]

\* process_run_criteria: sorts the run criteria, resolves the parent of the
\* piped ones and returns the map of labels to indices.
process_run_criteria(rc, result) ==
    LET inverted == order_inverted(result.order)
        labels == [ l \in CriteriaLabels |->
                      IF \E i \in 1..Len(rc) : rc[i].label = l
                      THEN inverted[CHOOSE i \in 1..Len(rc) : rc[i].label = l]
                      ELSE 0 ]
        piped == [ i \in 1..Len(rc) |->
                     IF rc[i].inner = "Piped"
                     THEN [rc[i] EXCEPT !.parent = labels[rc[i].after]]
                     ELSE rc[i] ]
    IN  IF ~result.ok
        THEN [err |-> TRUE, panic |-> FALSE, labels |-> [l \in CriteriaLabels |-> 0],
              inverted |-> [i \in 1..Len(rc) |-> i], run_criteria |-> rc]
        ELSE [err |-> FALSE,
              panic |-> \E i \in 1..Len(rc) : rc[i].inner = "Piped" /\ labels[rc[i].after] = 0,
              labels |-> labels,
              inverted |-> inverted,
              run_criteria |-> [ k \in 1..Len(rc) |-> piped[result.order[k]] ]]

\* Faulty variant of process_systems: the dependencies are computed but the
\* containers are left in the order of registration.
process_systems_unsorted(systems, run_criteria_labels, result) ==
    LET graph == build_dependency_graph(systems)
        inverted == order_inverted(result.order)
        resolved == [ i \in 1..Len(systems) |->
            [systems[i] EXCEPT
               !.run_criteria = IF systems[i].run_criteria_label # 0
                                THEN run_criteria_labels[systems[i].run_criteria_label]
                                ELSE @,
               !.dependencies = { inverted[d] : d \in graph[i] }] ]
    IN  IF ~result.ok
        THEN [err |-> TRUE, panic |-> FALSE, systems |-> systems]
        ELSE [err |-> FALSE,
              panic |-> \E i \in 1..Len(systems) :
                           /\ systems[i].run_criteria_label # 0
                           /\ run_criteria_labels[systems[i].run_criteria_label] = 0,
              systems |-> resolved]

\* Faulty variant of process_systems: a run criteria named by label is not
\* looked up, the container keeps the index it was registered with.
process_systems_label_unresolved(systems, run_criteria_labels, result) ==
    LET graph == build_dependency_graph(systems)
        inverted == order_inverted(result.order)
        resolved == [ i \in 1..Len(systems) |->
            [systems[i] EXCEPT
               !.dependencies = { inverted[d] : d \in graph[i] }] ]
    IN  IF ~result.ok
        THEN [err |-> TRUE, panic |-> FALSE, systems |-> systems]
        ELSE [err |-> FALSE,
              panic |-> FALSE,
              systems |-> [ k \in 1..Len(systems) |-> resolved[result.order[k]] ]]

\* process_systems: resolves the run criteria named by label, maps the
\* dependencies of every container to the sorted positions and sorts the
\* containers.
process_systems(systems, run_criteria_labels, result) ==
    LET graph == build_dependency_graph(systems)
        inverted == order_inverted(result.order)
        resolved == [ i \in 1..Len(systems) |->
            [systems[i] EXCEPT
               !.run_criteria = IF systems[i].run_criteria_label # 0
                                THEN run_criteria_labels[systems[i].run_criteria_label]
                                ELSE @,
               !.dependencies = { inverted[d] : d \in graph[i] }] ]
    IN  IF ~result.ok
        THEN [err |-> TRUE, panic |-> FALSE, systems |-> systems]
        ELSE [err |-> FALSE,
              panic |-> \E i \in 1..Len(systems) :
                           /\ systems[i].run_criteria_label # 0
                           /\ run_criteria_labels[systems[i].run_criteria_label] = 0,
              systems |-> [ k \in 1..Len(systems) |-> resolved[result.order[k]] ]]

\* Faulty variant of unwrap_dependency_cycle_error: the error is dropped.
unwrap_dependency_cycle_error_ignored(result) == FALSE

\* unwrap_dependency_cycle_error of rebuild_orders_and_dependencies: panics
\* on Err(GraphCycles).
unwrap_dependency_cycle_error(result) == result.err

\* initialize_systems.
initialize_systems ==
    LET ic == InitializeCriteria(run_criteria, uninitialized_run_criteria, 1,
                                 [l \in CriteriaLabels |-> 0], <<>>, <<>>)
    IN  IF ic.panic
        THEN [panic |-> TRUE, run_criteria |-> run_criteria, parallel |-> parallel,
              at_start |-> exclusive_at_start,
              before_commands |-> exclusive_before_commands,
              at_end |-> exclusive_at_end]
        ELSE [panic |-> FALSE, run_criteria |-> ic.run_criteria,
              parallel |-> InitializeContainers(parallel, uninitialized_parallel, ic.new_indices),
              at_start |-> InitializeContainers(exclusive_at_start, uninitialized_at_start, ic.new_indices),
              before_commands |-> InitializeContainers(exclusive_before_commands,
                                      uninitialized_before_commands, ic.new_indices),
              at_end |-> InitializeContainers(exclusive_at_end, uninitialized_at_end, ic.new_indices)]

\* rebuild_orders_and_dependencies, given the results of its five calls of
\* topological_order.
rebuild_orders_and_dependencies(S, rcr, pr, sr, br, er) ==
    LET prc == process_run_criteria(S.run_criteria, rcr)
        upd(v) == IF prc.err THEN v ELSE update_run_criteria_indices(v, prc.inverted)
        p == process_systems(upd(S.parallel), prc.labels, pr)
        s == process_systems(upd(S.at_start), prc.labels, sr)
        b == process_systems(upd(S.before_commands), prc.labels, br)
        e == process_systems(upd(S.at_end), prc.labels, er)
    IN  [panic |-> \/ unwrap_dependency_cycle_error(prc) \/ prc.panic
                   \/ unwrap_dependency_cycle_error(p) \/ p.panic
                   \/ unwrap_dependency_cycle_error(s) \/ s.panic
                   \/ unwrap_dependency_cycle_error(b) \/ b.panic
                   \/ unwrap_dependency_cycle_error(e) \/ e.panic,
         run_criteria |-> prc.run_criteria,
         parallel |-> p.systems,
         at_start |-> s.systems,
         before_commands |-> b.systems,
         at_end |-> e.systems]

\* ------------------------------------------------------------------ Init
\* SystemStage::parallel, on a world that holds no entity.
Init ==
    /\ executor = "ParallelExecutor"
    /\ run_criteria = <<>>
    /\ exclusive_at_start = <<>>
    /\ exclusive_before_commands = <<>>
    /\ exclusive_at_end = <<>>
    /\ parallel = <<>>
    /\ systems_modified = TRUE
    /\ uninitialized_run_criteria = <<>>
    /\ uninitialized_at_start = <<>>
    /\ uninitialized_before_commands = <<>>
    /\ uninitialized_at_end = <<>>
    /\ uninitialized_parallel = <<>>
    /\ apply_buffers = TRUE
    /\ pc = "idle"
    /\ stage_should_run = "Yes"
    /\ run_stage_loop = FALSE
    /\ default_should_run = "Yes"
    /\ cursor = 1
    /\ first_iteration = TRUE
    /\ buffers_applied = FALSE
    /\ entities = 0
    /\ world_id = 0
    /\ run_world = 0
    /\ amb_systems = <<>>
    /\ amb_level = "Unset"
    /\ amb_result = <<>>
    /\ rep_stage = [segment \in Segments |-> <<>>]
    /\ rep_level = "Unset"
    /\ rep_ambiguities = <<>>
    /\ rep_outcome = "idle"
    /\ change_tick = 0
    /\ last_change_tick = 0
    /\ component_ticks = [added |-> 0, changed |-> 0]
    /\ tick_query = <<>>
    /\ tick_check = <<>>
    /\ kinds = <<>>
    /\ relationships = <<>>
    /\ bundle_infos = <<>>
    /\ bundle_ids = {}
    /\ bundle_call = <<>>
    /\ table = <<>>
    /\ sparse_sets = <<>>
    /\ write_log = <<>>
    /\ query_shape = <<>>
    /\ query_access = [reads_and_writes |-> {}, writes |-> {}]
    /\ query_outcome = "idle"
    /\ relation_storage = "Unset"
    /\ archetypes = << [components |-> {}, table_id |-> 0] >>
    /\ match_query = <<>>
    /\ current_relation_filter = <<>>
    /\ relation_filter_accesses = <<>>
    /\ examined = {}
    /\ last_call = "World::new"
    /\ fetched = <<>>
    /\ param_resources = <<>>
    /\ param_inits = <<>>
    /\ param_access = [reads_and_writes |-> {}, writes |-> {}]
    /\ param_outcome = "idle"
    /\ world_relationships = [ relationships |-> <<>>, relationship_indices |-> <<>>, kinds |-> <<>>, component_indices |-> <<>>, resource_indices |-> <<>> ]
    /\ relationships_call = <<>>
    /\ returned = {}
    /\ world_schedules = {}
    /\ state_resource = "A"
    /\ next_state_resource = <<>>
    /\ next_state_changed = FALSE
    /\ schedules_ran = <<>>
    /\ transition_call = <<>>
    /\ run_at_least_once = FALSE
    /\ outer_ran = <<>>
    /\ world_change_tick = 1
    /\ last_tick_check = 0
    /\ stage_systems = 0
    /\ ticks_since_check = 1
    /\ last_check = <<>>
    /\ eq_call = <<>>
    /\ par_pc = "idle"
    /\ par_input = <<>>
    /\ par_cursor = 1
    /\ par_offset = 0
    /\ par_tasks = {}
    /\ par_calls = <<>>
    /\ main_spawned = 0
    /\ main_alive = {}
    /\ sync_marked = {}
    /\ render_entity = <<>>
    /\ main_entity = <<>>
    /\ render_spawned = 0
    /\ pending = <<>>
    /\ sync_state = "changed"
    /\ marker_history = [added |-> {}, removed |-> {}, synchronized |-> {}]

\* ---------------------------------------------------------- registration
\* add_run_criteria_internal.
add_run_criteria_internal(descriptor) ==
    /\ uninitialized_run_criteria' =
          Append(uninitialized_run_criteria, <<Len(run_criteria) + 1, descriptor.strategy>>)
    /\ run_criteria' = Append(run_criteria,
          RunCriteriaContainer(descriptor.label, descriptor.after, descriptor.strategy,
              IF "name" \in DOMAIN descriptor THEN descriptor.name ELSE 0))

\* add_system_inner(system, None), as called by add_system.
add_system_inner(seg, ordering, criteria) ==
    LET index == Len(SegmentSystems(seg)) + 1
        container ==
            [SystemContainer(index, ordering) EXCEPT
               !.run_criteria_label = criteria.label,
               !.run_criteria = IF criteria.kind = "Descriptor"
                                THEN Len(run_criteria) + 1 ELSE 0]
    IN  /\ systems_modified' = TRUE
        /\ IF criteria.kind = "Descriptor"
           THEN add_run_criteria_internal(criteria)
           ELSE UNCHANGED <<run_criteria, uninitialized_run_criteria>>
        /\ IF seg = "ExclusiveAtStart"
           THEN /\ uninitialized_at_start' = Append(uninitialized_at_start, index)
                /\ exclusive_at_start' = Append(exclusive_at_start, container)
           ELSE UNCHANGED <<uninitialized_at_start, exclusive_at_start>>
        /\ IF seg = "ExclusiveBeforeCommands"
           THEN /\ uninitialized_before_commands' = Append(uninitialized_before_commands, index)
                /\ exclusive_before_commands' = Append(exclusive_before_commands, container)
           ELSE UNCHANGED <<uninitialized_before_commands, exclusive_before_commands>>
        /\ IF seg = "ExclusiveAtEnd"
           THEN /\ uninitialized_at_end' = Append(uninitialized_at_end, index)
                /\ exclusive_at_end' = Append(exclusive_at_end, container)
           ELSE UNCHANGED <<uninitialized_at_end, exclusive_at_end>>
        /\ IF seg = "Parallel"
           THEN /\ uninitialized_parallel' = Append(uninitialized_parallel, index)
                /\ parallel' = Append(parallel, container)
           ELSE UNCHANGED <<uninitialized_parallel, parallel>>

runLocals == <<pc, stage_should_run, run_stage_loop, default_should_run, cursor,
               first_iteration, buffers_applied>>

\* SystemStage::add_system, the segment and the ordering declarations of the
\* system and its run criteria drawn from the given sets.
AddSystemOf(systems, criteria_options) ==
    /\ pc = "idle"
    /\ \E system \in systems, criteria \in criteria_options :
         /\ NumContainers + (IF criteria.kind = "Descriptor" THEN 2 ELSE 1) <= MaxContainers
         /\ add_system_inner(system[1], system[2], criteria)
    /\ UNCHANGED <<executor, apply_buffers, runLocals, entities, nonStageVars>>

\* Systems with and without run criteria: unordered ones in every segment,
\* and a parallel one ordered after them.
AddSystem == AddSystemOf(PlainSystems, CriteriaOptions)

\* Systems with every ordering declaration in every segment, no run criteria.
AddOrderedSystem == AddSystemOf(OrderedSystems, NoCriteria)

\* Unordered systems in every segment, no run criteria.
AddPlainSystem == AddSystemOf(Segments \X {Unordered}, NoCriteria)

\* SystemStage::add_system_run_criteria, the descriptor drawn from the given
\* set.
AddSystemRunCriteriaOf(descriptors) ==
    /\ pc = "idle"
    /\ NumContainers < MaxContainers
    /\ \E descriptor \in descriptors : add_run_criteria_internal(descriptor)
    /\ UNCHANGED <<executor, exclusive_at_start, exclusive_before_commands,
                   exclusive_at_end, parallel, systems_modified,
                   uninitialized_at_start, uninitialized_before_commands,
                   uninitialized_at_end, uninitialized_parallel, apply_buffers,
                   runLocals, entities, nonStageVars>>

\* A run criteria without label.
AddSystemRunCriteria == AddSystemRunCriteriaOf(CriteriaDescriptors)

\* SystemStage::set_executor.
SetExecutor ==
    /\ pc = "idle"
    /\ \E e \in Executors : executor' = e
    /\ UNCHANGED <<run_criteria, exclusive_at_start, exclusive_before_commands,
                   exclusive_at_end, parallel, systems_modified,
                   uninitialized_run_criteria, uninitialized_at_start,
                   uninitialized_before_commands, uninitialized_at_end,
                   uninitialized_parallel, apply_buffers, runLocals, entities, nonStageVars>>

\* SystemStage::set_apply_buffers.
SetApplyBuffers ==
    /\ pc = "idle"
    /\ \E b \in BOOLEAN : apply_buffers' = b
    /\ UNCHANGED <<executor, run_criteria, exclusive_at_start,
                   exclusive_before_commands, exclusive_at_end, parallel,
                   systems_modified, uninitialized_run_criteria,
                   uninitialized_at_start, uninitialized_before_commands,
                   uninitialized_at_end, uninitialized_parallel, runLocals,
                   entities, nonStageVars>>

\* ------------------------------------------------------------- Stage::run
ClearRan(systems) ==
    [ i \in 1..Len(systems) |-> [systems[i] EXCEPT !.ran = "pending"] ]

RECURSIVE SumBuffers(_, _)
SumBuffers(systems, n) ==
    IF n = 0 THEN 0 ELSE systems[n].buffer + SumBuffers(systems, n - 1)

\* Faulty variant of should_run: YesAndCheckAgain does not count as a yes.
should_run_only_yes(container, criteria, default) ==
    LET result == IF container.run_criteria # 0
                  THEN criteria[container.run_criteria].should_run
                  ELSE default
    IN  result = "Yes"

\* The should_run function local to run.
should_run(container, criteria, default) ==
    LET result == IF container.run_criteria # 0
                  THEN criteria[container.run_criteria].should_run
                  ELSE default
    IN  result \in {"Yes", "YesAndCheckAgain"}

\* Faulty variant of NextPhase: the parallel systems are handed to the
\* executor after the before-commands exclusive systems.
NextPhaseParallelLate(phase) ==
    CASE phase = "RunExclusiveAtStart" -> "RunExclusiveBeforeBuffers"
      [] phase = "RunExclusiveBeforeBuffers" -> "RunParallelBatch"
      [] phase = "RunParallelBatch" -> "ApplyBuffers"
      [] phase = "ApplyBuffers" -> "RunExclusiveAtEnd"
      [] phase = "RunExclusiveAtEnd" -> "ReevaluateLoopingCriteria"

\* Faulty variant of NextPhase: the buffers are applied after the at-end
\* exclusive systems.
NextPhaseBuffersLate(phase) ==
    CASE phase = "RunExclusiveAtStart" -> "RunParallelBatch"
      [] phase = "RunParallelBatch" -> "RunExclusiveBeforeBuffers"
      [] phase = "RunExclusiveBeforeBuffers" -> "RunExclusiveAtEnd"
      [] phase = "RunExclusiveAtEnd" -> "ApplyBuffers"
      [] phase = "ApplyBuffers" -> "ReevaluateLoopingCriteria"

\* The order of the steps in the body of the system loop of run.
NextPhase(phase) ==
    CASE phase = "RunExclusiveAtStart" -> "RunParallelBatch"
      [] phase = "RunParallelBatch" -> "RunExclusiveBeforeBuffers"
      [] phase = "RunExclusiveBeforeBuffers" -> "ApplyBuffers"
      [] phase = "ApplyBuffers" -> "RunExclusiveAtEnd"
      [] phase = "RunExclusiveAtEnd" -> "ReevaluateLoopingCriteria"

PhaseSystems(phase) ==
    CASE phase = "RunExclusiveAtStart" -> exclusive_at_start
      [] phase = "RunExclusiveBeforeBuffers" -> exclusive_before_commands
      [] phase = "RunExclusiveAtEnd" -> exclusive_at_end

\* The loop of run that sets should_run on the parallel containers before
\* it hands them to the executor.
PrepareParallel(systems) ==
    [ i \in 1..Len(systems) |->
        LET run == should_run(systems[i], run_criteria, default_should_run)
        IN  [systems[i] EXCEPT !.should_run = run,
                               !.ran = IF run THEN "pending" ELSE "skipped"] ]

\* The parallel containers on entry to a step of the loop body.
EnterPhase(phase, systems) ==
    IF phase = "RunParallelBatch" THEN PrepareParallel(systems) ELSE systems

stageConfig == <<executor, systems_modified,
                 uninitialized_run_criteria, uninitialized_at_start,
                 uninitialized_before_commands, uninitialized_at_end,
                 uninitialized_parallel, apply_buffers>>
containers == <<run_criteria, exclusive_at_start, exclusive_before_commands,
                exclusive_at_end, parallel>>

\* A panic unwinds out of run; the stage is not used again.
Panic ==
    /\ pc' = "panicked"
    /\ UNCHANGED <<stageConfig, containers, stage_should_run, run_stage_loop,
                   default_should_run, cursor, first_iteration, buffers_applied,
                   entities, pureVars>>

\* Stage::run after the check of the world, up to the stage loop: when the
\* systems were modified, initialize_systems and
\* rebuild_orders_and_dependencies.
\* (report_ambiguities changes no state at the default level, and the cached
\* data of the executor is not part of this model.)
RunInitialize ==
    /\ IF ~systems_modified
       THEN /\ pc' = "EvaluateStageCriteria"
            /\ run_stage_loop' = TRUE
            /\ stage_should_run' = "Yes"
            /\ UNCHANGED <<stageConfig, containers, default_should_run, cursor,
                           first_iteration, buffers_applied, entities, pureVars>>
       ELSE
         LET S == initialize_systems IN
         IF S.panic THEN Panic
         ELSE
           \E rcr \in topological_order(build_dependency_graph(CriteriaNodes(S.run_criteria))),
              pr \in topological_order(build_dependency_graph(S.parallel)),
              sr \in topological_order(build_dependency_graph(S.at_start)),
              br \in topological_order(build_dependency_graph(S.before_commands)),
              er \in topological_order(build_dependency_graph(S.at_end)) :
             LET R == rebuild_orders_and_dependencies(S, rcr, pr, sr, br, er) IN
             IF R.panic THEN Panic
             ELSE
               /\ run_criteria' = R.run_criteria
               /\ parallel' = R.parallel
               /\ exclusive_at_start' = R.at_start
               /\ exclusive_before_commands' = R.before_commands
               /\ exclusive_at_end' = R.at_end
               /\ uninitialized_run_criteria' = <<>>
               /\ uninitialized_at_start' = <<>>
               /\ uninitialized_before_commands' = <<>>
               /\ uninitialized_at_end' = <<>>
               /\ uninitialized_parallel' = <<>>
               /\ systems_modified' = FALSE
               /\ pc' = "EvaluateStageCriteria"
               /\ run_stage_loop' = TRUE
               /\ stage_should_run' = "Yes"
               /\ UNCHANGED <<executor, apply_buffers, default_should_run, cursor,
                              first_iteration, buffers_applied, entities, pureVars>>

\* The worlds a stage is run with.
Worlds == {1, 2}

\* Faulty variant of world_mismatch: the world is not compared.
world_mismatch_never(world) == FALSE

\* The assertion at the head of run fails: the stage has run before, with
\* another world.
world_mismatch(world) == world_id # 0 /\ world # world_id

\* Stage::run(world), the world drawn from the given set: the world is
\* compared with the world of the first run, which a first run records.
RunOf(worlds) ==
    /\ pc = "idle"
    /\ \E world \in worlds :
        /\ run_world' = world
        /\ IF world_mismatch(world)
           THEN Panic /\ world_id' = world_id
           ELSE /\ world_id' = (IF world_id = 0 THEN world ELSE world_id)
                /\ RunInitialize

\* run with the one world of a program that has a single world.
Run == RunOf({1})

\* run with any world.
RunAnyWorld == RunOf(Worlds)

\* The return of run: its locals go out of scope, and so does the record of
\* what ran in the call.  should_run of a parallel container is written in
\* every iteration before it is read, so its value is forgotten as well.
Return ==
    /\ pc' = "idle"
    /\ exclusive_at_start' = ClearRan(exclusive_at_start)
    /\ exclusive_before_commands' = ClearRan(exclusive_before_commands)
    /\ exclusive_at_end' = ClearRan(exclusive_at_end)
    /\ parallel' = [ i \in 1..Len(parallel) |->
                       [parallel[i] EXCEPT !.ran = "pending", !.should_run = FALSE] ]
    /\ run_stage_loop' = FALSE
    /\ default_should_run' = "Yes"
    /\ cursor' = 1
    /\ first_iteration' = TRUE
    /\ buffers_applied' = FALSE

\* Faulty variant of StageLoopStep: Yes leaves run_stage_loop set.
StageLoopStepYesLoops(result) ==
    CASE result = "No" -> "return"
      [] result = "NoAndCheckAgain" -> "continue"
      [] result = "YesAndCheckAgain" -> "run"
      [] result = "Yes" -> "run"

\* Faulty variant of StageLoopStep: No runs the systems once.
StageLoopStepNoRuns(result) ==
    CASE result = "No" -> "run_last"
      [] result = "NoAndCheckAgain" -> "continue"
      [] result = "YesAndCheckAgain" -> "run"
      [] result = "Yes" -> "run_last"

\* The match on the result of the stage run criteria at the head of the
\* stage loop.
StageLoopStep(result) ==
    CASE result = "No" -> "return"
      [] result = "NoAndCheckAgain" -> "continue"
      [] result = "YesAndCheckAgain" -> "run"
      [] result = "Yes" -> "run_last"

\* The head of the stage loop: the stage run criteria is a system of the
\* user and may return any value.
EvaluateStageCriteria ==
    /\ pc = "EvaluateStageCriteria"
    /\ \E result \in ShouldRun :
        /\ stage_should_run' = result
        /\ CASE StageLoopStep(result) = "return" ->
                  /\ Return
                  /\ UNCHANGED run_criteria
             [] StageLoopStep(result) = "continue" ->
                  UNCHANGED <<pc, run_stage_loop, containers, default_should_run,
                              cursor, first_iteration, buffers_applied>>
             [] StageLoopStep(result) = "run" ->
                  /\ pc' = "EvaluateSystemRunCriteria"
                  /\ UNCHANGED <<run_stage_loop, containers, default_should_run,
                                 cursor, first_iteration, buffers_applied>>
             [] StageLoopStep(result) = "run_last" ->
                  /\ pc' = "EvaluateSystemRunCriteria"
                  /\ run_stage_loop' = FALSE
                  /\ UNCHANGED <<containers, default_should_run, cursor,
                                 first_iteration, buffers_applied>>
    /\ UNCHANGED <<stageConfig, entities, nonStageVars>>

\* The first evaluation of the system run criteria of a pass, in the order
\* of the vector; every criteria is a system of the user and may return any
\* value, a piped one is handed the result of its parent.
EvaluateSystemRunCriteria ==
    /\ pc = "EvaluateSystemRunCriteria"
    /\ IF \E i \in 1..Len(run_criteria) :
            /\ run_criteria[i].inner = "Piped"
            /\ (run_criteria[i].parent >= i \/ run_criteria[i].parent = 0)
       THEN Panic /\ UNCHANGED worldVars
       ELSE
         /\ \E results \in [1..Len(run_criteria) -> ShouldRun] :
              run_criteria' = [ i \in 1..Len(run_criteria) |->
                  [run_criteria[i] EXCEPT
                     !.should_run = results[i],
                     !.input = IF run_criteria[i].inner = "Piped"
                               THEN results[run_criteria[i].parent] ELSE @] ]
         /\ default_should_run' = "Yes"
         /\ first_iteration' = TRUE
         /\ buffers_applied' = FALSE
         /\ cursor' = 1
         /\ pc' = "RunExclusiveAtStart"
         /\ exclusive_at_start' = ClearRan(exclusive_at_start)
         /\ exclusive_before_commands' = ClearRan(exclusive_before_commands)
         /\ exclusive_at_end' = ClearRan(exclusive_at_end)
         /\ parallel' = ClearRan(parallel)
         /\ UNCHANGED <<stageConfig, stage_should_run, run_stage_loop,
                        entities, nonStageVars>>

\* One turn of a for loop over an exclusive segment: the container under
\* the cursor runs to completion if its run criteria lets it.
RunExclusive(systems) ==
    [systems EXCEPT ![cursor].ran =
        IF should_run(systems[cursor], run_criteria, default_should_run)
        THEN "done" ELSE "skipped"]

RunExclusiveSystem ==
    /\ pc \in ExclusivePhases
    /\ cursor <= Len(PhaseSystems(pc))
    /\ cursor' = cursor + 1
    /\ exclusive_at_start' =
          IF pc = "RunExclusiveAtStart" THEN RunExclusive(exclusive_at_start)
          ELSE exclusive_at_start
    /\ exclusive_before_commands' =
          IF pc = "RunExclusiveBeforeBuffers" THEN RunExclusive(exclusive_before_commands)
          ELSE exclusive_before_commands
    /\ exclusive_at_end' =
          IF pc = "RunExclusiveAtEnd" THEN RunExclusive(exclusive_at_end)
          ELSE exclusive_at_end
    /\ UNCHANGED <<stageConfig, run_criteria, parallel, pc, stage_should_run,
                   run_stage_loop, default_should_run, first_iteration,
                   buffers_applied, entities, nonStageVars>>

\* The end of a for loop over an exclusive segment.
FinishExclusive ==
    /\ pc \in ExclusivePhases
    /\ cursor > Len(PhaseSystems(pc))
    /\ pc' = NextPhase(pc)
    /\ cursor' = 1
    /\ parallel' = EnterPhase(NextPhase(pc), parallel)
    /\ UNCHANGED <<stageConfig, run_criteria, exclusive_at_start,
                   exclusive_before_commands, exclusive_at_end, stage_should_run,
                   run_stage_loop, default_should_run, first_iteration,
                   buffers_applied, entities, nonStageVars>>

\* ParallelSystemExecutor::run_systems.  Both executors run the containers
\* whose should_run is set.  The single-threaded one runs them one at a
\* time in the order of the vector; the parallel one starts a system once
\* its dependencies that run have finished.  A system that does not run
\* holds back no other.
Settled(systems, i) == systems[i].ran \in {"done", "skipped"}

CanStart(systems, i) ==
    /\ systems[i].should_run
    /\ systems[i].ran = "pending"
    /\ IF executor = "SingleThreadedExecutor"
       THEN \A j \in 1..Len(systems) :
              /\ systems[j].ran # "running"
              /\ (j < i) => Settled(systems, j)
       ELSE \A d \in systems[i].dependencies : Settled(systems, d)

ExecutorStart ==
    /\ pc = "RunParallelBatch"
    /\ \E i \in 1..Len(parallel) :
        /\ CanStart(parallel, i)
        /\ parallel' = [parallel EXCEPT ![i].ran = "running"]
    /\ UNCHANGED <<stageConfig, run_criteria, exclusive_at_start,
                   exclusive_before_commands, exclusive_at_end, runLocals,
                   entities, nonStageVars>>

\* A parallel system finishes; the spawn command it issued through its
\* Commands parameter waits in the CommandQueue of the system.
ExecutorFinish ==
    /\ pc = "RunParallelBatch"
    /\ \E i \in 1..Len(parallel) :
        /\ parallel[i].ran = "running"
        /\ parallel' = [parallel EXCEPT
             ![i].ran = "done",
             ![i].buffer = IF entities + SumBuffers(parallel, Len(parallel)) < MaxEntities
                           THEN @ + 1 ELSE @]
    /\ UNCHANGED <<stageConfig, run_criteria, exclusive_at_start,
                   exclusive_before_commands, exclusive_at_end, runLocals,
                   entities, nonStageVars>>

\* run_systems returns when every system that runs has finished.
ExecutorReturn ==
    /\ pc = "RunParallelBatch"
    /\ \A i \in 1..Len(parallel) : Settled(parallel, i)
    /\ pc' = NextPhase(pc)
    /\ cursor' = 1
    /\ UNCHANGED <<stageConfig, containers, stage_should_run, run_stage_loop,
                   default_should_run, first_iteration, buffers_applied,
                   entities, nonStageVars>>

\* The commands that wait in the buffers of the containers: of all of them,
\* or of those whose should_run is set.
AppliedCount(systems, n, all) ==
    LET selected == { i \in 1..n : all \/ systems[i].should_run }
        RECURSIVE Sum(_)
        Sum(I) == IF I = {} THEN 0
                  ELSE LET i == CHOOSE x \in I : TRUE
                       IN  systems[i].buffer + Sum(I \ {i})
    IN  Sum(selected)

\* System::apply_buffers on all the containers, or on those whose should_run
\* is set.
FlushBuffers(systems, all) ==
    [ i \in 1..Len(systems) |->
        IF all \/ systems[i].should_run
        THEN [systems[i] EXCEPT !.buffer = 0] ELSE systems[i] ]

\* "Apply parallel systems' buffers" of the loop body.
ApplyBuffers ==
    /\ pc = "ApplyBuffers"
    /\ IF apply_buffers
       THEN /\ entities' = entities + AppliedCount(parallel, Len(parallel), FALSE)
            /\ parallel' = EnterPhase(NextPhase(pc), FlushBuffers(parallel, FALSE))
            /\ buffers_applied' = TRUE
       ELSE /\ parallel' = EnterPhase(NextPhase(pc), parallel)
            /\ UNCHANGED <<entities, buffers_applied>>
    /\ pc' = NextPhase(pc)
    /\ cursor' = 1
    /\ UNCHANGED <<stageConfig, run_criteria, exclusive_at_start,
                   exclusive_before_commands, exclusive_at_end, stage_should_run,
                   run_stage_loop, default_should_run, first_iteration, nonStageVars>>

\* SystemStage::apply_buffers, called by the user between two runs.
ApplyBuffersCall ==
    /\ pc = "idle"
    /\ entities' = entities + AppliedCount(parallel, Len(parallel), TRUE)
    /\ parallel' = FlushBuffers(parallel, TRUE)
    /\ UNCHANGED <<stageConfig, run_criteria, exclusive_at_start,
                   exclusive_before_commands, exclusive_at_end, runLocals, nonStageVars>>

\* "Evaluate run criteria" at the end of the loop body: the criteria that
\* asked to be checked again are evaluated again, Yes becomes No.
Reevaluated(results) ==
    LET value(i) == CASE run_criteria[i].should_run = "No" -> "No"
                      [] run_criteria[i].should_run = "Yes" -> "No"
                      [] OTHER -> results[i]
    IN  [ i \in 1..Len(run_criteria) |->
            [run_criteria[i] EXCEPT
               !.should_run = value(i),
               !.input = IF /\ run_criteria[i].inner = "Piped"
                            /\ run_criteria[i].should_run \in CheckAgain
                         THEN value(run_criteria[i].parent) ELSE @] ]

\* Faulty variant of DefaultAfterFirstLoop: the default is left at Yes.
DefaultAfterFirstLoopYes == "Yes"

\* default_should_run once the loop body has run: "after the first loop,
\* default to not running systems without run criteria".
DefaultAfterFirstLoop == "No"

\* Faulty variant of RunSystemLoop: a criteria evaluated again to Yes does
\* not ask for another iteration.
RunSystemLoopCheckAgainOnly(results) ==
    \E i \in 1..Len(run_criteria) :
        /\ run_criteria[i].should_run \in CheckAgain
        /\ results[i] \in CheckAgain

\* run_system_loop after the evaluation.
RunSystemLoop(results) ==
    \E i \in 1..Len(run_criteria) :
        /\ run_criteria[i].should_run \in CheckAgain
        /\ results[i] \in {"Yes", "YesAndCheckAgain", "NoAndCheckAgain"}

ReevaluateLoopingCriteria ==
    /\ pc = "ReevaluateLoopingCriteria"
    /\ \E results \in [1..Len(run_criteria) -> ShouldRun] :
        /\ run_criteria' = Reevaluated(results)
        /\ IF RunSystemLoop(results)
           THEN /\ pc' = "RunExclusiveAtStart"
                /\ default_should_run' = DefaultAfterFirstLoop
                /\ first_iteration' = FALSE
                /\ cursor' = 1
                /\ buffers_applied' = FALSE
                /\ exclusive_at_start' = ClearRan(exclusive_at_start)
                /\ exclusive_before_commands' = ClearRan(exclusive_before_commands)
                /\ exclusive_at_end' = ClearRan(exclusive_at_end)
                /\ parallel' = ClearRan(parallel)
                /\ UNCHANGED run_stage_loop
           ELSE IF run_stage_loop
           THEN /\ pc' = "EvaluateStageCriteria"
                /\ default_should_run' = "Yes"
                /\ first_iteration' = TRUE
                /\ cursor' = 1
                /\ buffers_applied' = FALSE
                /\ exclusive_at_start' = ClearRan(exclusive_at_start)
                /\ exclusive_before_commands' = ClearRan(exclusive_before_commands)
                /\ exclusive_at_end' = ClearRan(exclusive_at_end)
                /\ parallel' = ClearRan(parallel)
                /\ UNCHANGED run_stage_loop
           ELSE Return
    /\ UNCHANGED <<stageConfig, stage_should_run, entities, nonStageVars>>

Next ==
    \/ AddSystem
    \/ AddSystemRunCriteria
    \/ Run
    \/ EvaluateStageCriteria
    \/ EvaluateSystemRunCriteria
    \/ RunExclusiveSystem
    \/ FinishExclusive
    \/ ExecutorStart
    \/ ExecutorFinish
    \/ ExecutorReturn
    \/ ApplyBuffers
    \/ ReevaluateLoopingCriteria

Spec == Init /\ [][Next]_vars

NextOrder ==
    \/ AddOrderedSystem
    \/ SetExecutor
    \/ Run
    \/ EvaluateStageCriteria
    \/ EvaluateSystemRunCriteria
    \/ RunExclusiveSystem
    \/ FinishExclusive
    \/ ExecutorStart
    \/ ExecutorFinish
    \/ ExecutorReturn
    \/ ApplyBuffers
    \/ ReevaluateLoopingCriteria

SpecOrder == Init /\ [][NextOrder]_vars

NextBuffers ==
    \/ AddPlainSystem
    \/ SetApplyBuffers
    \/ ApplyBuffersCall
    \/ Run
    \/ EvaluateStageCriteria
    \/ EvaluateSystemRunCriteria
    \/ RunExclusiveSystem
    \/ FinishExclusive
    \/ ExecutorStart
    \/ ExecutorFinish
    \/ ExecutorReturn
    \/ ApplyBuffers
    \/ ReevaluateLoopingCriteria

SpecBuffers == Init /\ [][NextBuffers]_vars

\* The stage run with two worlds.
NextWorlds ==
    \/ AddPlainSystem
    \/ RunAnyWorld
    \/ EvaluateStageCriteria
    \/ EvaluateSystemRunCriteria
    \/ RunExclusiveSystem
    \/ FinishExclusive
    \/ ExecutorStart
    \/ ExecutorFinish
    \/ ExecutorReturn
    \/ ApplyBuffers
    \/ ReevaluateLoopingCriteria

SpecWorlds == Init /\ [][NextWorlds]_vars

\* with_system_run_criteria(every_other_time.label(..)).
AddLabelledRunCriteria == AddSystemRunCriteriaOf(LabelledCriteria)

\* with_system(make_parallel(..).with_run_criteria("every other time")) and
\* the like, for the executor and for the loops of the stage before and
\* after it.
AddGatedSystem ==
    AddSystemOf({"Parallel", "ExclusiveAtStart", "ExclusiveAtEnd"} \X {Unordered},
                GatedOptions)

\* The stage with a labelled run criteria and the systems that name it.
NextCriteria ==
    \/ AddLabelledRunCriteria
    \/ AddGatedSystem
    \/ Run
    \/ EvaluateStageCriteria
    \/ EvaluateSystemRunCriteria
    \/ RunExclusiveSystem
    \/ FinishExclusive
    \/ ExecutorStart
    \/ ExecutorFinish
    \/ ExecutorReturn
    \/ ApplyBuffers
    \/ ReevaluateLoopingCriteria

SpecCriteria == Init /\ [][NextCriteria]_vars

\* with_run_criteria(RunCriteria::pipe("every other time", eot_piped)) and
\* the criteria it pipes from, given to the stage.
AddPipedRunCriteria == AddSystemRunCriteriaOf(PipedCriteria)

\* The stage with piped run criteria.
NextPipes ==
    \/ AddPipedRunCriteria
    \/ AddPlainSystem
    \/ Run
    \/ EvaluateStageCriteria
    \/ EvaluateSystemRunCriteria
    \/ RunExclusiveSystem
    \/ FinishExclusive
    \/ ExecutorStart
    \/ ExecutorFinish
    \/ ExecutorReturn
    \/ ApplyBuffers
    \/ ReevaluateLoopingCriteria

SpecPipes == Init /\ [][NextPipes]_vars

\* with_system(..with_run_criteria(
\* every_other_time.label_discard_if_duplicate("every other time"))), and
\* systems with a criteria of their own; the systems are exclusive ones that
\* run at the start of the stage.
AddDiscardingSystem ==
    /\ pc = "idle"
    /\ Len(exclusive_at_start) < MaxGated
    /\ \E criteria \in DiscardOptions :
         add_system_inner("ExclusiveAtStart", Unordered,
                          [criteria EXCEPT !.name = Len(exclusive_at_start) + 1])
    /\ UNCHANGED <<executor, apply_buffers, runLocals, entities, nonStageVars>>

\* The stage of systems that bring their run criteria along: registration
\* and initialization in turns.  A run is followed up to the stage run
\* criteria; what the system loop does with the initialized containers is
\* the subject of SpecCriteria.
NextDiscard ==
    \/ AddDiscardingSystem
    \/ Run
    \/ EvaluateStageCriteria

SpecDiscard == Init /\ [][NextDiscard]_vars

\* ====================================================== find_ambiguities
\* ExecutionOrderAmbiguities.
ReportLevels == {"Allow", "Warn", "WarnVerbose", "WarnInternal", "Deny", "Forbid"}

\* The components and resources the systems access.
Components == {"R"}

\* The systems handed to find_ambiguities, after tests::make_test_stage:
\* systems that write the resource R and are checked, labelled, ignored,
\* ambiguous with the label or defined in a crate of the ignore list; a
\* system that reads R; an exclusive system (component_access is None).
AmbSystemOptions ==
    { [exclusive |-> FALSE, reads |-> {}, writes |-> {"R"}, labels |-> {},
       detection |-> "Check", ignore_labels |-> {}, internal |-> FALSE],
      [exclusive |-> FALSE, reads |-> {}, writes |-> {"R"}, labels |-> {1},
       detection |-> "Check", ignore_labels |-> {}, internal |-> FALSE],
      [exclusive |-> FALSE, reads |-> {}, writes |-> {"R"}, labels |-> {},
       detection |-> "Ignore", ignore_labels |-> {}, internal |-> FALSE],
      [exclusive |-> FALSE, reads |-> {}, writes |-> {"R"}, labels |-> {},
       detection |-> "IgnoreWithLabel", ignore_labels |-> {1}, internal |-> FALSE],
      [exclusive |-> FALSE, reads |-> {}, writes |-> {"R"}, labels |-> {},
       detection |-> "Check", ignore_labels |-> {}, internal |-> TRUE],
      [exclusive |-> FALSE, reads |-> {"R"}, writes |-> {}, labels |-> {},
       detection |-> "Check", ignore_labels |-> {}, internal |-> FALSE],
      [exclusive |-> TRUE, reads |-> {}, writes |-> {}, labels |-> {},
       detection |-> "Check", ignore_labels |-> {}, internal |-> FALSE] }

\* ignored_crates of SystemStage::ambiguities: whether the list holds the
\* crates of the internal systems.
ignored_crates(report_level) == report_level # "WarnInternal"

\* Access::get_conflicts: the components one system writes and the other
\* reads or writes.
get_conflicts(a, b) ==
    { c \in Components :
        \/ c \in a.writes /\ c \in b.reads \cup b.writes
        \/ c \in b.writes /\ c \in a.reads \cup a.writes }

\* Faulty variant of should_ignore_ambiguity: only the marks of system_a
\* are looked at.
should_ignore_ambiguity_a_only(systems, index_a, index_b, crates_filter, report_level) ==
    LET system_a == systems[index_a]
        system_b == systems[index_b]
    IN  IF report_level = "Forbid" THEN FALSE
        ELSE \/ system_a.detection = "Ignore"
             \/ /\ system_a.detection = "IgnoreWithLabel"
                /\ system_a.ignore_labels \cap system_b.labels # {}
             \/ (crates_filter /\ system_a.internal) /\ (crates_filter /\ system_b.internal)

\* Faulty variant of should_ignore_ambiguity: the report level is not
\* looked at.
should_ignore_ambiguity_at_forbid(systems, index_a, index_b, crates_filter, report_level) ==
    LET system_a == systems[index_a]
        system_b == systems[index_b]
        ignores(x, y) ==
            CASE x.detection = "Ignore" -> TRUE
              [] x.detection = "Check" -> FALSE
              [] x.detection = "IgnoreWithLabel" -> x.ignore_labels \cap y.labels # {}
    IN  \/ ignores(system_a, system_b)
        \/ ignores(system_b, system_a)
        \/ (crates_filter /\ system_a.internal) /\ (crates_filter /\ system_b.internal)

\* should_ignore_ambiguity of find_ambiguities.
should_ignore_ambiguity(systems, index_a, index_b, crates_filter, report_level) ==
    LET system_a == systems[index_a]
        system_b == systems[index_b]
        ignores(x, y) ==
            CASE x.detection = "Ignore" -> TRUE
              [] x.detection = "Check" -> FALSE
              [] x.detection = "IgnoreWithLabel" -> x.ignore_labels \cap y.labels # {}
    IN  IF report_level = "Forbid" THEN FALSE
        ELSE \/ ignores(system_a, system_b)
             \/ ignores(system_b, system_a)
             \/ (crates_filter /\ system_a.internal) /\ (crates_filter /\ system_b.internal)

\* all_dependencies[index] of find_ambiguities: the dependencies of the
\* system and, the systems being sorted, all of theirs.
RECURSIVE all_dependencies(_, _)
all_dependencies(systems, index) ==
    UNION { all_dependencies(systems, d) \cup {d} : d \in systems[index].dependencies }

\* Faulty variant of all_dependants: the dependants of the dependants are
\* left out.
all_dependants_direct(systems, index) ==
    { j \in 1..Len(systems) : index \in systems[j].dependencies }

\* all_dependants[index] of find_ambiguities after the second loop: the
\* systems that depend on the system and all that depend on them.
RECURSIVE all_dependants(_, _)
all_dependants(systems, index) ==
    LET direct == { j \in 1..Len(systems) : index \in systems[j].dependencies }
    IN  UNION { all_dependants(systems, j) \cup {j} : j \in direct }

\* all_relations[index] of find_ambiguities.
all_relations(systems, index) ==
    all_dependencies(systems, index) \cup all_dependants(systems, index) \cup {index}

\* Faulty variant of processed: no system is remembered.
processed_none(index_a) == {}

\* processed of find_ambiguities when the outer loop is at index_a.
processed(index_a) == 1..(index_a - 1)

\* The pairs of indices in the order the two loops of find_ambiguities
\* visit them.
IndexPairs(n) ==
    [ k \in 1..(n * n) |-> <<((k - 1) \div n) + 1, ((k - 1) % n) + 1>> ]

\* find_ambiguities: the vector of (index_a, index_b, component_ids).
find_ambiguities(systems, crates_filter, report_level) ==
    LET reported(pair) ==
            LET index_a == pair[1]
                index_b == pair[2]
            IN  /\ index_b \notin all_relations(systems, index_a)
                /\ index_b \notin processed(index_a)
                /\ ~should_ignore_ambiguity(systems, index_a, index_b,
                                            crates_filter, report_level)
                /\ \/ systems[index_a].exclusive
                   \/ systems[index_b].exclusive
                   \/ get_conflicts(systems[index_a], systems[index_b]) # {}
        component_ids(pair) ==
            IF systems[pair[1]].exclusive \/ systems[pair[2]].exclusive THEN {}
            ELSE get_conflicts(systems[pair[1]], systems[pair[2]])
        pairs == SelectSeq(IndexPairs(Len(systems)), reported)
    IN  [ k \in 1..Len(pairs) |-> <<pairs[k][1], pairs[k][2], component_ids(pairs[k])>> ]

\* A system is added to the sorted vector: it depends on systems before it.
AddAmbSystem ==
    /\ Len(amb_systems) < MaxAmbSystems
    /\ \E option \in AmbSystemOptions, dependencies \in SUBSET (1..Len(amb_systems)) :
         amb_systems' = Append(amb_systems,
             [ dependencies |-> dependencies,
               exclusive |-> option.exclusive,
               reads |-> option.reads,
               writes |-> option.writes,
               labels |-> option.labels,
               detection |-> option.detection,
               ignore_labels |-> option.ignore_labels,
               internal |-> option.internal ])
    /\ amb_level' = "Unset"
    /\ amb_result' = <<>>
    /\ UNCHANGED nonAmbVars

\* find_ambiguities is called on the vector at a report level, with the
\* crate list SystemStage::ambiguities builds for that level. The function
\* is pure: one call per vector and level covers every call.
FindAmbiguities ==
    /\ amb_level = "Unset"
    /\ \E report_level \in ReportLevels :
        /\ amb_level' = report_level
        /\ amb_result' = find_ambiguities(amb_systems, ignored_crates(report_level),
                                          report_level)
    /\ UNCHANGED <<amb_systems, nonAmbVars>>

NextAmb ==
    \/ AddAmbSystem
    \/ FindAmbiguities

SpecAmb == Init /\ [][NextAmb]_vars

\* ================================== SystemStage::ambiguities and its report
\* The systems of a stage whose ambiguities are reported: parallel systems
\* that write R, checked or marked ignore-all, and exclusive systems.
ReportSystemOptions(segment) ==
    IF segment = "Parallel"
    THEN { o \in AmbSystemOptions :
             /\ o.writes = {"R"} /\ o.labels = {} /\ ~o.internal
             /\ o.detection \in {"Check", "Ignore"} }
    ELSE { o \in AmbSystemOptions : o.exclusive }

\* SystemOrderAmbiguity::from_raw on every entry of a vector returned by
\* find_ambiguities; the systems are named by their indices.
from_raw(raw, segment) ==
    [ k \in 1..Len(raw) |->
        [ system_names |-> <<raw[k][1], raw[k][2]>>,
          conflicts |-> raw[k][3],
          segment |-> segment ] ]

\* The order in which SystemStage::ambiguities extends the returned vector.
SegmentOrder ==
    <<"ExclusiveAtStart", "Parallel", "ExclusiveBeforeCommands", "ExclusiveAtEnd">>

\* SystemStage::ambiguities on an initialized stage.
ambiguities(stage, report_level) ==
    IF report_level = "Allow" THEN <<>>
    ELSE LET of(segment) ==
                 from_raw(find_ambiguities(stage[segment], ignored_crates(report_level),
                                           report_level), segment)
         IN  of(SegmentOrder[1]) \o of(SegmentOrder[2])
                \o of(SegmentOrder[3]) \o of(SegmentOrder[4])

\* Faulty variant of ReportPanics: only Forbid is fatal.
ReportPanicsForbidOnly(unresolved_count, report_level) ==
    unresolved_count > 0 /\ report_level = "Forbid"

\* Whether report_ambiguities reaches its panic!.
ReportPanics(unresolved_count, report_level) ==
    unresolved_count > 0 /\ report_level \in {"Deny", "Forbid"}

\* A system is in a segment of the initialized stage: it depends on systems
\* before it in the sorted vector of the segment.
AddReportSystem ==
    /\ \E segment \in Segments :
        /\ Len(rep_stage[segment]) < MaxSegmentSystems
        /\ \E option \in ReportSystemOptions(segment),
              dependencies \in SUBSET (1..Len(rep_stage[segment])) :
             rep_stage' = [rep_stage EXCEPT ![segment] = Append(@,
                 [ dependencies |-> dependencies,
                   exclusive |-> option.exclusive,
                   reads |-> option.reads,
                   writes |-> option.writes,
                   labels |-> option.labels,
                   detection |-> option.detection,
                   ignore_labels |-> option.ignore_labels,
                   internal |-> option.internal ])]
    /\ rep_level' = "Unset"
    /\ rep_ambiguities' = <<>>
    /\ rep_outcome' = "idle"
    /\ UNCHANGED nonRepVars

\* SystemStage::report_ambiguities.
ReportAmbiguities ==
    /\ rep_level = "Unset"
    /\ \E report_level \in ReportLevels :
        LET found == ambiguities(rep_stage, report_level)
            unresolved_count == Len(found)
        IN  /\ rep_level' = report_level
            /\ rep_ambiguities' = found
            /\ rep_outcome' = IF ReportPanics(unresolved_count, report_level)
                                 THEN "panicked"
                              ELSE IF unresolved_count > 0 THEN "warned"
                              ELSE "silent"
    /\ UNCHANGED <<rep_stage, nonRepVars>>

NextReport ==
    \/ AddReportSystem
    \/ ReportAmbiguities

SpecReport == Init /\ [][NextReport]_vars

\* ============================================================ change ticks
\* 2^TickBits, the number of values of a tick.
RECURSIVE Pow2(_)
Pow2(n) == IF n = 0 THEN 1 ELSE 2 * Pow2(n - 1)

TickModulus == Pow2(TickBits)

\* u32::MAX at the width of the model.
U32_MAX == TickModulus - 1

Ticks == 0..U32_MAX

\* u32::wrapping_sub and u32::wrapping_add.
wrapping_sub(a, b) == (a + TickModulus - b) % TickModulus

wrapping_add(a, b) == (a + b) % TickModulus

\* MAX_DELTA of check_tick.
MAX_DELTA == (U32_MAX \div 4) * 3

\* ComponentTicks::new.
new_ticks(tick) == [added |-> tick, changed |-> tick]

\* ComponentTicks::is_added.
is_added(ticks, last, current) ==
    LET component_delta == wrapping_sub(current, ticks.added)
        system_delta == wrapping_sub(current, last)
    IN  component_delta < system_delta

\* Faulty variant of is_changed: the ticks are compared directly.
is_changed_direct(ticks, last, current) == ticks.changed > last

\* ComponentTicks::is_changed.
is_changed(ticks, last, current) ==
    LET component_delta == wrapping_sub(current, ticks.changed)
        system_delta == wrapping_sub(current, last)
    IN  component_delta < system_delta

\* Faulty variant of check_tick: the clamped tick is one tick too old.
check_tick_late(last, current) ==
    LET tick_delta == wrapping_sub(current, last)
    IN  IF tick_delta > MAX_DELTA THEN wrapping_sub(current, MAX_DELTA + 1) ELSE last

\* check_tick: the new value of the tick.
check_tick(last, current) ==
    LET tick_delta == wrapping_sub(current, last)
    IN  IF tick_delta > MAX_DELTA THEN wrapping_sub(current, MAX_DELTA) ELSE last

\* ComponentTicks::check_ticks: the new value of the ticks.
check_ticks(ticks, current) ==
    [added |-> check_tick(ticks.added, current),
     changed |-> check_tick(ticks.changed, current)]

\* The change tick of the world moves on, wrapping at u32::MAX.
AdvanceChangeTick ==
    /\ \E delta \in 1..U32_MAX : change_tick' = wrapping_add(change_tick, delta)
    /\ tick_query' = <<>>
    /\ tick_check' = <<>>
    /\ UNCHANGED <<last_change_tick, component_ticks, nonTickVars>>

\* The component is inserted: ComponentTicks::new(change_tick).
NewTicks ==
    /\ component_ticks' = new_ticks(change_tick)
    /\ tick_query' = <<>>
    /\ tick_check' = <<>>
    /\ UNCHANGED <<change_tick, last_change_tick, nonTickVars>>

\* ComponentTicks::set_changed(change_tick).
SetChanged ==
    /\ component_ticks' = [component_ticks EXCEPT !.changed = change_tick]
    /\ tick_query' = <<>>
    /\ tick_check' = <<>>
    /\ UNCHANGED <<change_tick, last_change_tick, nonTickVars>>

\* A system asks is_added and is_changed with its last change tick and the
\* current one; the current tick becomes its last change tick.
QueryTicks ==
    /\ tick_query' = << [ last |-> last_change_tick,
                          current |-> change_tick,
                          ticks |-> component_ticks,
                          is_added |-> is_added(component_ticks, last_change_tick, change_tick),
                          is_changed |-> is_changed(component_ticks, last_change_tick, change_tick) ] >>
    /\ last_change_tick' = change_tick
    /\ tick_check' = <<>>
    /\ UNCHANGED <<change_tick, component_ticks, nonTickVars>>

\* ComponentTicks::check_ticks(change_tick).
CheckTicks ==
    /\ component_ticks' = check_ticks(component_ticks, change_tick)
    /\ tick_check' = << [ before |-> component_ticks, current |-> change_tick ] >>
    /\ tick_query' = <<>>
    /\ UNCHANGED <<change_tick, last_change_tick, nonTickVars>>

NextTicks ==
    \/ AdvanceChangeTick
    \/ NewTicks
    \/ SetChanged
    \/ QueryTicks
    \/ CheckTicks

SpecTicks == Init /\ [][NextTicks]_vars

\* ================================================================ bundles
\* The component kinds of the program and their storage.
ComponentKinds == {"A", "B", "C"}

storage_type(kind) == IF kind = "C" THEN "SparseSet" ELSE "Table"

\* Bundle::type_info of the bundle types of the program: tuples of
\* components in their declared order, some with a kind twice.
BundleTypes ==
    { <<>>, <<"A">>, <<"B">>, <<"A", "B">>, <<"B", "A">>, <<"C", "B">>,
      <<"C", "A", "B">>, <<"A", "A">>, <<"A", "B", "A">> }

\* The index under which a key is found in a map of the registry, 0 when
\* it has no entry.
IndexOf(seq, key) ==
    IF \E i \in 1..Len(seq) : seq[i] = key
    THEN CHOOSE i \in 1..Len(seq) : seq[i] = key /\ \A j \in 1..(i - 1) : seq[j] # key
    ELSE 0

\* Relationships::get_component_info_or_insert_with: the registry after the
\* call and the id of the relationship of the component kind.
get_component_info_or_insert_with(registry, type_id) ==
    LET found == IndexOf(registry.kinds, type_id)
        kinds_after == IF found = 0 THEN Append(registry.kinds, type_id) ELSE registry.kinds
        kind == IF found = 0 THEN Len(kinds_after) ELSE found
        relationship == IndexOf(registry.relationships, kind)
        relationships_after ==
            IF relationship = 0 THEN Append(registry.relationships, kind)
            ELSE registry.relationships
    IN  [ registry |-> [kinds |-> kinds_after, relationships |-> relationships_after],
          id |-> IF relationship = 0 THEN Len(relationships_after) ELSE relationship ]

\* The loop of initialize_bundle over type_info: the registry after it and
\* the component ids in the order of type_info.
RECURSIVE RegisterComponents(_, _, _)
RegisterComponents(registry, type_info, component_ids) ==
    IF Len(component_ids) = Len(type_info)
    THEN [registry |-> registry, component_ids |-> component_ids]
    ELSE LET got == get_component_info_or_insert_with(registry,
                        type_info[Len(component_ids) + 1])
         IN  RegisterComponents(got.registry, type_info, Append(component_ids, got.id))

\* Faulty variant of has_duplicates: the ids are not compared.
has_duplicates_never(component_ids) == FALSE

\* deduped.len() != component_ids.len() of initialize_bundle, deduped being
\* the sorted ids with repetitions removed.
has_duplicates(component_ids) ==
    Cardinality(Range(component_ids)) # Len(component_ids)

\* initialize_bundle: the registry is updated before the check for
\* duplicates; the BundleInfo is built when the check passes.
initialize_bundle(type_info, id, registry) ==
    LET registered == RegisterComponents(registry, type_info, <<>>)
    IN  [ registry |-> registered.registry,
          panic |-> has_duplicates(registered.component_ids),
          bundle_info |->
              [ id |-> id,
                relationship_ids |-> registered.component_ids,
                storage_types |->
                    [ i \in 1..Len(type_info) |-> storage_type(type_info[i]) ] ] ]

\* The columns and sparse sets of the entity cover every registered id.
Extend(slots, n) ==
    [ i \in 1..n |-> IF i <= Len(slots) THEN slots[i] ELSE <<>> ]

\* Bundles::init_info::<T>: an unknown bundle type is initialized and
\* stored, unless initialize_bundle panics; a known one is looked up.
InitInfo ==
    /\ \E T \in BundleTypes :
        IF \E entry \in bundle_ids : entry[1] = T
        THEN /\ bundle_call' = << [type |-> T, outcome |-> "found"] >>
             /\ UNCHANGED <<kinds, relationships, bundle_infos, bundle_ids, table,
                            sparse_sets>>
        ELSE /\ Len(bundle_infos) < MaxBundles
             /\ LET id == Len(bundle_infos) + 1
                    init == initialize_bundle(T, id,
                                [kinds |-> kinds, relationships |-> relationships])
                IN  /\ kinds' = init.registry.kinds
                    /\ relationships' = init.registry.relationships
                    /\ table' = Extend(table, Len(init.registry.relationships))
                    /\ sparse_sets' = Extend(sparse_sets, Len(init.registry.relationships))
                    /\ IF init.panic
                       THEN /\ bundle_call' = << [type |-> T, outcome |-> "panicked"] >>
                            /\ UNCHANGED <<bundle_infos, bundle_ids>>
                       ELSE /\ bundle_call' = << [type |-> T, outcome |-> "inserted"] >>
                            /\ bundle_infos' = Append(bundle_infos, init.bundle_info)
                            /\ bundle_ids' = bundle_ids \cup {<<T, id>>}
    /\ write_log' = <<>>
    /\ UNCHANGED nonBundleVars

\* Faulty variant of component_id_of: the position in the bundle is taken
\* for the id.
component_id_of_position(bundle_info, relationship_index) == relationship_index

\* self.relationship_ids.get_unchecked(relationship_index) of
\* write_relationship.
component_id_of(bundle_info, relationship_index) ==
    bundle_info.relationship_ids[relationship_index]

\* BundleInfo::write_relationship: the value goes to the column or the
\* sparse set of the component id at relationship_index; the ticks of a
\* component that was there are marked changed, those of a new one are new.
write_relationship(bundle_info, storage, relationship_index, component, tick) ==
    LET component_id == component_id_of(bundle_info, relationship_index)
        written(slot) ==
            IF slot = <<>>
            THEN << [component |-> component, ticks |-> new_ticks(tick)] >>
            ELSE << [component |-> component,
                     ticks |-> [slot[1].ticks EXCEPT !.changed = tick]] >>
    IN  IF bundle_info.storage_types[relationship_index] = "Table"
        THEN [storage EXCEPT !.table[component_id] = written(@),
                             !.log = Append(@, component_id)]
        ELSE [storage EXCEPT !.sparse_sets[component_id] = written(@),
                             !.log = Append(@, component_id)]

\* BundleInfo::write_components: get_components yields the values of the
\* bundle in the order of its declaration, bundle_component counts them.
RECURSIVE write_components(_, _, _, _, _)
write_components(bundle_info, storage, bundle, bundle_component, tick) ==
    IF bundle_component > Len(bundle) THEN storage
    ELSE write_components(bundle_info,
             write_relationship(bundle_info, storage, bundle_component,
                                bundle[bundle_component], tick),
             bundle, bundle_component + 1, tick)

\* A bundle of a registered type is written to the entity; the value of a
\* component is named after its kind.
WriteComponents ==
    /\ \E entry \in bundle_ids :
        LET T == entry[1]
            bundle_info == bundle_infos[entry[2]]
            storage == write_components(bundle_info,
                           [table |-> table, sparse_sets |-> sparse_sets, log |-> <<>>],
                           T, 1, change_tick)
        IN  /\ table' = storage.table
            /\ sparse_sets' = storage.sparse_sets
            /\ write_log' = storage.log
            /\ bundle_call' = << [type |-> T, outcome |-> "written"] >>
    /\ UNCHANGED <<kinds, relationships, bundle_infos, bundle_ids, nonBundleVars>>

NextBundles ==
    \/ InitInfo
    \/ WriteComponents

SpecBundles == Init /\ [][NextBundles]_vars

\* ================================================================ queries
\* The component kinds a query asks for.
QueryKinds == {"A", "B"}

\* The WorldQuery types: &T, &mut T and tuples of WorldQuery types.
ReadOf(kind) == [node |-> "Read", kind |-> kind, items |-> <<>>]

WriteOf(kind) == [node |-> "Write", kind |-> kind, items |-> <<>>]

TupleOf(items) == [node |-> "Tuple", kind |-> "-", items |-> items]

RECURSIVE QueryShapes(_)
QueryShapes(depth) ==
    IF depth = 0
    THEN { ReadOf(kind) : kind \in QueryKinds } \cup { WriteOf(kind) : kind \in QueryKinds }
    ELSE LET inner == QueryShapes(depth - 1)
         IN  inner \cup { TupleOf(<<>>) }
                   \cup { TupleOf(<<x>>) : x \in inner }
                   \cup { TupleOf(<<x, y>>) : x \in inner, y \in inner }

\* Access::has_read, has_write, add_read and add_write: a write is a read
\* as well.
has_read(access, index) == index \in access.reads_and_writes

has_write(access, index) == index \in access.writes

add_read(access, index) ==
    [access EXCEPT !.reads_and_writes = @ \cup {index}]

add_write(access, index) ==
    [access EXCEPT !.reads_and_writes = @ \cup {index}, !.writes = @ \cup {index}]

\* Faulty variant of read_conflicts: a previous write is not looked for.
read_conflicts_never(access, kind) == FALSE

\* The test of ReadState::update_component_access.
read_conflicts(access, kind) == has_write(access, kind)

\* The test of WriteState::update_component_access.
write_conflicts(access, kind) == has_read(access, kind)

\* FetchState::update_component_access of ReadState, of WriteState, of
\* ReadRelationState, of OptionState and of the tuples, which hand the access
\* to their items in order; a panic ends the call.
RECURSIVE update_component_access(_, _)
update_component_access(state, result) ==
    IF result.panic THEN result
    ELSE CASE state.node = "Read" ->
                IF read_conflicts(result.access, state.kind)
                THEN [result EXCEPT !.panic = TRUE]
                ELSE [result EXCEPT !.access = add_read(@, state.kind)]
           [] state.node = "Write" ->
                IF write_conflicts(result.access, state.kind)
                THEN [result EXCEPT !.panic = TRUE]
                ELSE [result EXCEPT !.access = add_write(@, state.kind)]
           [] state.node = "Relation" ->
                [result EXCEPT !.access = add_read(@, state.kind)]
           [] state.node = "Option" ->
                update_component_access(state.items[1], result)
           [] state.node = "Tuple" ->
                IF state.items = <<>> THEN result
                ELSE update_component_access(TupleOf(Tail(state.items)),
                         update_component_access(Head(state.items), result))

\* QueryState::new for a query without filter: the access of the fetch is
\* collected in an empty FilteredAccess. The call depends on the query
\* alone: one call covers every call.
NewQueryState ==
    /\ query_shape = <<>>
    /\ \E shape \in QueryShapes(MaxQueryDepth) :
        LET result == update_component_access(shape,
                          [access |-> [reads_and_writes |-> {}, writes |-> {}],
                           panic |-> FALSE])
        IN  /\ query_shape' = <<shape>>
            /\ query_access' = result.access
            /\ query_outcome' = IF result.panic THEN "panicked" ELSE "initialized"
    /\ UNCHANGED nonQueryVars

NextQuery == NewQueryState

SpecQuery == Init /\ [][NextQuery]_vars

\* ============================================ archetypes a query matches
\* usize::MAX, the archetype_generation of a cache that was never scanned,
\* in place of 2^64 - 1.
USIZE_MAX == 255

StorageTypes == {"Table", "SparseSet"}

\* The target entities of the relation kind R.
Targets == {1, 2}

\* What an archetype is made of: the component A (no target) and the
\* relation kind R with a target.
MatchComponents == { <<"A", 0>>, <<"R", 1>>, <<"R", 2>> }

\* DataLayout::storage_type of a kind: A is stored in tables, R as it was
\* registered.
kind_storage(kind, storage) == IF kind = "R" THEN storage ELSE "Table"

\* The columns of the table of an archetype: its table-stored components.
TableColumns(components, storage) ==
    { c \in components : kind_storage(c[1], storage) = "Table" }

\* Archetype::contains and Table::has_column.
contains(components, kind, target) == <<kind, target>> \in components

\* archetype.components.get(kind) and table.columns.get(kind): None when
\* the kind is there with no target at all.
get_kind(components, kind) == { c \in components : c[1] = kind }

\* Archetypes::generation.
generation(archs) == Len(archs)

\* The id of the table of a new archetype: the table of an archetype with
\* the same columns, or a new table.
table_id_for(archs, components, storage) ==
    LET same == { i \in 1..Len(archs) :
                    TableColumns(archs[i].components, storage)
                      = TableColumns(components, storage) }
        used == { archs[i].table_id : i \in 1..Len(archs) }
    IN  IF same # {} THEN archs[CHOOSE i \in same : TRUE].table_id
        ELSE Cardinality(used)

\* The WorldQuery types &Relation<T> and Option<T>.
RelationOf(kind) == [node |-> "Relation", kind |-> kind, items |-> <<>>]

OptionOf(inner) == [node |-> "Option", kind |-> "-", items |-> <<inner>>]

\* The terms of query_conflict_tests and no_query_conflict_tests: &T, &mut T
\* and &Relation<T> of the kinds, and the queries made of up to MaxTerms of
\* them.
ConflictTerms ==
    UNION { { ReadOf(kind), WriteOf(kind), RelationOf(kind) } : kind \in QueryKinds }

ConflictQueries ==
    UNION { { TupleOf(items) : items \in [1..n -> ConflictTerms] } : n \in 0..MaxTerms }

\* world.query::<Q>() for the queries of the conflict tests: QueryState::new
\* on a new world, whose one archetype holds no component, so that what is
\* left of the call is the collection of the access.
NewConflictQuery ==
    /\ query_shape = <<>>
    /\ \E shape \in ConflictQueries :
        LET result == update_component_access(shape,
                          [access |-> [reads_and_writes |-> {}, writes |-> {}],
                           panic |-> FALSE])
        IN  /\ query_shape' = <<shape>>
            /\ query_access' = result.access
            /\ query_outcome' = IF result.panic THEN "panicked" ELSE "initialized"
    /\ UNCHANGED nonQueryVars

NextConflict == NewConflictQuery

SpecConflict == Init /\ [][NextConflict]_vars

\* The queries of the program.
MatchTerms ==
    { ReadOf("A"), RelationOf("R"),
      OptionOf(ReadOf("A")), OptionOf(RelationOf("R")),
      TupleOf(<< RelationOf("R"), OptionOf(ReadOf("A")) >>),
      TupleOf(<< ReadOf("A"), OptionOf(RelationOf("R")) >>) }

\* SmallVec<[Entity; 4]>, the RelationFilter of &Relation<T>: the targets
\* in the order they were added.
TargetFilters == { <<>>, <<1>>, <<2>>, <<1, 2>>, <<2, 1>> }

\* FetchState::RelationFilter: () for &T, the targets for &Relation<T>,
\* that of T for Option<T>, a tuple of filters for a tuple.
RECURSIVE RelationFilters(_)
RelationFilters(state) ==
    CASE state.node = "Read" -> { <<>> }
      [] state.node = "Relation" -> TargetFilters
      [] state.node = "Option" -> RelationFilters(state.items[1])
      [] state.node = "Tuple" ->
            { <<f, g>> : f \in RelationFilters(state.items[1]),
                         g \in RelationFilters(state.items[2]) }

\* Default::default() of the RelationFilter.
RECURSIVE default_filter(_)
default_filter(state) ==
    CASE state.node = "Tuple" ->
            << default_filter(state.items[1]), default_filter(state.items[2]) >>
      [] state.node = "Option" -> default_filter(state.items[1])
      [] OTHER -> <<>>

\* Faulty variant of relation_matches: one target of the filter is enough.
relation_matches_any(components, kind, relation_filter) ==
    /\ get_kind(components, kind) # {}
    /\ relation_filter # <<>> =>
         \E i \in 1..Len(relation_filter) : contains(components, kind, relation_filter[i])

\* ReadRelationState::matches_archetype and matches_table.
relation_matches(components, kind, relation_filter) ==
    IF get_kind(components, kind) = {} THEN FALSE
    ELSE \A i \in 1..Len(relation_filter) : contains(components, kind, relation_filter[i])

\* Faulty variant of option_matches: Option<T> matches what T matches.
option_matches_inner(inner_matches) == inner_matches

\* OptionState::matches_archetype and matches_table.
option_matches(inner_matches) == TRUE

\* FetchState::matches_archetype and matches_table, on the components of
\* the archetype or the columns of the table.
RECURSIVE matches(_, _, _)
matches(state, components, relation_filter) ==
    CASE state.node = "Read" -> contains(components, state.kind, 0)
      [] state.node = "Relation" -> relation_matches(components, state.kind, relation_filter)
      [] state.node = "Option" ->
            option_matches(matches(state.items[1], components, relation_filter))
      [] state.node = "Tuple" ->
            \A i \in 1..Len(state.items) :
                matches(state.items[i], components, relation_filter[i])

\* Fetch::is_dense.
RECURSIVE is_dense(_, _)
is_dense(state, storage) ==
    CASE state.node = "Tuple" -> \A i \in 1..Len(state.items) : is_dense(state.items[i], storage)
      [] state.node = "Option" -> is_dense(state.items[1], storage)
      [] OTHER -> kind_storage(state.kind, storage) = "Table"

\* The items of a fetch: a reference, None, Some(item), a tuple of items,
\* and the panic that ends the fetch.
PanicItem == << "panic" >>

SomeOf(item) == IF item = PanicItem THEN PanicItem ELSE << "Some", item >>

\* OptionFetch::archetype_fetch and table_fetch, after set_archetype or
\* set_table stored in self.matches whether the inner state matches.
option_fetch(option_matched, inner_item) ==
    IF option_matched THEN SomeOf(inner_item) ELSE << "None" >>

\* Fetch::set_archetype followed by archetype_fetch (set_table and
\* table_fetch), on the components of the archetype (columns of the table):
\* ReadFetch unwraps the column, ReadRelationFetch is todo!().
RECURSIVE fetch_item(_, _, _)
fetch_item(state, components, relation_filter) ==
    CASE state.node = "Read" ->
            IF contains(components, state.kind, 0) THEN << "&", state.kind >>
            ELSE PanicItem
      [] state.node = "Relation" -> PanicItem
      [] state.node = "Option" ->
            LET inner == state.items[1]
                option_matched == matches(inner, components, relation_filter)
            IN  option_fetch(option_matched,
                    IF option_matched THEN fetch_item(inner, components, relation_filter)
                    ELSE PanicItem)
      [] state.node = "Tuple" ->
            LET first == fetch_item(state.items[1], components, relation_filter[1])
                second == fetch_item(state.items[2], components, relation_filter[2])
            IN  IF first = PanicItem \/ second = PanicItem THEN PanicItem
                ELSE << "(", first, second >>

\* The QueryAccessCache of set_relation_filter.
NewCache ==
    [ archetype_generation |-> USIZE_MAX,
      matched_tables |-> {}, matched_archetypes |-> {},
      matched_table_ids |-> <<>>, matched_archetype_ids |-> <<>> ]

\* QueryState::new_archetype, for the archetype with the id archetype_index
\* (ids count from 0).
new_archetype(fetch_state, relation_filter, cache, archs, archetype_index) ==
    LET archetype == archs[archetype_index + 1]
        table_index == archetype.table_id
        with_archetype ==
            IF archetype_index \notin cache.matched_archetypes
            THEN [cache EXCEPT !.matched_archetypes = @ \cup {archetype_index},
                               !.matched_archetype_ids = Append(@, archetype_index)]
            ELSE cache
    IN  IF matches(fetch_state, archetype.components, relation_filter)
        THEN IF table_index \notin with_archetype.matched_tables
             THEN [with_archetype EXCEPT !.matched_tables = @ \cup {table_index},
                                         !.matched_table_ids = Append(@, table_index)]
             ELSE with_archetype
        ELSE cache

\* Faulty variant of archetype_index_range: every call scans from 0.
archetype_index_range_all(old_generation, archs) ==
    IF old_generation = generation(archs) THEN {} ELSE 0..(Len(archs) - 1)

\* archetype_index_range of validate_world_and_update_archetypes.
archetype_index_range(old_generation, archs) ==
    IF old_generation = generation(archs) THEN {}
    ELSE IF old_generation = USIZE_MAX THEN 0..(Len(archs) - 1)
         ELSE old_generation..(Len(archs) - 1)

\* The for loop over archetype_index_range, in ascending order.
RECURSIVE scan(_, _, _, _, _)
scan(fetch_state, relation_filter, cache, archs, range) ==
    IF range = {} THEN cache
    ELSE LET archetype_index == CHOOSE i \in range : \A j \in range : i <= j
         IN  scan(fetch_state, relation_filter,
                  new_archetype(fetch_state, relation_filter, cache, archs, archetype_index),
                  archs, range \ {archetype_index})

\* validate_world_and_update_archetypes on the world the QueryState was
\* created from: every cache is brought up to the generation of the world.
validate_world_and_update_archetypes(fetch_state, accesses, archs) ==
    [ relation_filter \in DOMAIN accesses |->
        LET cache == accesses[relation_filter]
            old_generation == cache.archetype_generation
            range == archetype_index_range(old_generation, archs)
        IN  scan(fetch_state, relation_filter,
                 IF old_generation = generation(archs) THEN cache
                 ELSE [cache EXCEPT !.archetype_generation = generation(archs)],
                 archs, range) ]

\* What validate_world_and_update_archetypes hands to new_archetype.
Examined(accesses, archs) ==
    { pair \in (DOMAIN accesses) \X (0..(Len(archs) - 1)) :
        pair[2] \in archetype_index_range(accesses[pair[1]].archetype_generation, archs) }

\* self.relation_filter_accesses.entry(relation_filter).or_insert(..).
or_insert(accesses, relation_filter) ==
    [ f \in DOMAIN accesses \cup {relation_filter} |->
        IF f \in DOMAIN accesses THEN accesses[f] ELSE NewCache ]

\* World::register_component for the relation kind, with either storage.
RegisterRelation ==
    /\ relation_storage = "Unset"
    /\ \E storage \in StorageTypes : relation_storage' = storage
    /\ last_call' = "register_component"
    /\ fetched' = <<>>
    /\ examined' = {}
    /\ UNCHANGED <<archetypes, match_query, current_relation_filter,
                   relation_filter_accesses, nonMatchVars>>

\* The world creates the archetype of a set of components no archetype has
\* yet; archetypes are never removed.
NewArchetype ==
    /\ relation_storage # "Unset"
    /\ Len(archetypes) <= MaxArchetypes
    /\ \E components \in SUBSET MatchComponents :
        /\ \A i \in 1..Len(archetypes) : archetypes[i].components # components
        /\ archetypes' = Append(archetypes,
               [ components |-> components,
                 table_id |-> table_id_for(archetypes, components, relation_storage) ])
    /\ last_call' = "new_archetype"
    /\ fetched' = <<>>
    /\ examined' = {}
    /\ UNCHANGED <<relation_storage, match_query, current_relation_filter,
                   relation_filter_accesses, nonMatchVars>>

\* QueryState::new: FetchState::init registers an unknown kind with table
\* storage; the cache of the default filter is inserted and scanned by
\* set_relation_filter, the second validate finds nothing new.
NewMatchQuery ==
    /\ match_query = <<>>
    /\ \E fetch_state \in MatchTerms :
        LET relation_filter == default_filter(fetch_state)
            inserted == or_insert(<<>>, relation_filter)
            first == validate_world_and_update_archetypes(fetch_state, inserted, archetypes)
        IN  /\ match_query' = <<fetch_state>>
            /\ current_relation_filter' = relation_filter
            /\ relation_filter_accesses' =
                   validate_world_and_update_archetypes(fetch_state, first, archetypes)
            /\ examined' = Examined(inserted, archetypes) \cup Examined(first, archetypes)
    /\ relation_storage' = IF relation_storage = "Unset" THEN "Table" ELSE relation_storage
    /\ last_call' = "new"
    /\ fetched' = <<>>
    /\ UNCHANGED <<archetypes, nonMatchVars>>

\* QueryState::set_relation_filter.
SetRelationFilter ==
    /\ match_query # <<>>
    /\ \E relation_filter \in RelationFilters(match_query[1]) :
        /\ \/ relation_filter \in DOMAIN relation_filter_accesses
           \/ Cardinality(DOMAIN relation_filter_accesses) < MaxFilters
        /\ LET inserted == or_insert(relation_filter_accesses, relation_filter)
           IN  /\ current_relation_filter' = relation_filter
               /\ relation_filter_accesses' =
                      validate_world_and_update_archetypes(match_query[1], inserted, archetypes)
               /\ examined' = Examined(inserted, archetypes)
    /\ last_call' = "set_relation_filter"
    /\ fetched' = <<>>
    /\ UNCHANGED <<relation_storage, archetypes, match_query, nonMatchVars>>

\* The places for_each_unchecked_manual visits: the matched tables of the
\* current cache for a dense fetch, its matched archetypes otherwise.
for_each_unchecked_manual(fetch_state, relation_filter, cache, archs, storage) ==
    IF is_dense(fetch_state, storage)
    THEN [ i \in 1..Len(cache.matched_table_ids) |->
             LET table_id == cache.matched_table_ids[i]
                 owner == CHOOSE a \in 1..Len(archs) : archs[a].table_id = table_id
                 columns == TableColumns(archs[owner].components, storage)
             IN  [ dense |-> TRUE, id |-> table_id,
                   item |-> fetch_item(fetch_state, columns, relation_filter) ] ]
    ELSE [ i \in 1..Len(cache.matched_archetype_ids) |->
             LET archetype_id == cache.matched_archetype_ids[i]
             IN  [ dense |-> FALSE, id |-> archetype_id,
                   item |-> fetch_item(fetch_state, archs[archetype_id + 1].components,
                                       relation_filter) ] ]

\* QueryState::for_each: the caches are brought up to date, then one item
\* is fetched for the entity of every place visited.
ForEach ==
    /\ match_query # <<>>
    /\ last_call # "for_each"
    /\ LET accesses == validate_world_and_update_archetypes(match_query[1],
                           relation_filter_accesses, archetypes)
       IN  /\ relation_filter_accesses' = accesses
           /\ examined' = Examined(relation_filter_accesses, archetypes)
           /\ fetched' = for_each_unchecked_manual(match_query[1], current_relation_filter,
                             accesses[current_relation_filter], archetypes, relation_storage)
    /\ last_call' = "for_each"
    /\ UNCHANGED <<relation_storage, archetypes, match_query, current_relation_filter,
                   nonMatchVars>>

NextMatch ==
    \/ RegisterRelation
    \/ NewArchetype
    \/ NewMatchQuery
    \/ SetRelationFilter
    \/ ForEach

SpecMatch == Init /\ [][NextMatch]_vars

\* ============================================ system parameters Res, ResMut
\* The resource types of the program.
ResourceTypes == {"X", "Y"}

\* The parameters of a system: Res<T>, Option<Res<T>> and ResMut<T>.
ParamTypes ==
    { [node |-> node, type |-> type] :
        node \in {"Res", "OptionRes", "ResMut"}, type \in ResourceTypes }

\* World::initialize_resource::<T>: the id of the resource type, a new one
\* for a type the world does not know.
initialize_resource(resources, type) ==
    LET found == IndexOf(resources, type)
    IN  [ resources |-> IF found = 0 THEN Append(resources, type) ELSE resources,
          component_id |-> IF found = 0 THEN Len(resources) + 1 ELSE found ]

\* The assert! of ResState::init.
res_conflicts(combined_access, component_id) == has_write(combined_access, component_id)

\* Faulty variant of res_mut_conflicts: a previous Res<T> is not looked for.
res_mut_conflicts_write_only(combined_access, component_id) ==
    has_write(combined_access, component_id)

\* The two panics of ResMutState::init.
res_mut_conflicts(combined_access, component_id) ==
    IF has_write(combined_access, component_id) THEN TRUE
    ELSE has_read(combined_access, component_id)

\* SystemParamState::init of ResState, OptionResState (which calls
\* ResState::init) and ResMutState, on the access of the SystemMeta.
param_init(param, resources, combined_access) ==
    LET initialized == initialize_resource(resources, param.type)
        component_id == initialized.component_id
    IN  IF param.node = "ResMut"
        THEN [ resources |-> initialized.resources,
               panic |-> res_mut_conflicts(combined_access, component_id),
               access |-> IF res_mut_conflicts(combined_access, component_id)
                          THEN combined_access
                          ELSE add_write(combined_access, component_id) ]
        ELSE [ resources |-> initialized.resources,
               panic |-> res_conflicts(combined_access, component_id),
               access |-> IF res_conflicts(combined_access, component_id)
                          THEN combined_access
                          ELSE add_read(combined_access, component_id) ]

\* The parameters of one system are initialized in the order of their
\* declaration, on one SystemMeta; a panic ends the initialization.
InitParam ==
    /\ param_outcome # "panicked"
    /\ Len(param_inits) < MaxParams
    /\ \E param \in ParamTypes :
        LET result == param_init(param, param_resources, param_access)
        IN  /\ param_inits' = Append(param_inits, param)
            /\ param_resources' = result.resources
            /\ param_access' = result.access
            /\ param_outcome' = IF result.panic THEN "panicked" ELSE "initialized"
    /\ UNCHANGED nonParamVars

NextParams == InitParam

SpecParams == Init /\ [][NextParams]_vars

\* ================================================ Relationships registry
\* The types registered as component or as resource, and the targets of
\* a relationship (0: no target).
RegistryTypes == {"X", "Y"}

RegistryTargets == {0, 1}

\* HashMap::get, as an Option, and HashMap::insert.
MapGet(map, key) == IF key \in DOMAIN map THEN << map[key] >> ELSE <<>>

MapInsert(map, key, value) ==
    [ k \in DOMAIN map \cup {key} |-> IF k = key THEN value ELSE map[k] ]

\* What a call on the registry leaves: the registry, how it ended and the
\* id it returned. Ids count from 0, as the lengths of the vectors do.
Returned(registry, id) == [registry |-> registry, outcome |-> "returned", id |-> id]

Panicked(registry) == [registry |-> registry, outcome |-> "panicked", id |-> 0]

\* Relationships::relation_kind_of_component and relation_kind_of_resource.
relation_kind_of_component(registry, type_id) == MapGet(registry.component_indices, type_id)

relation_kind_of_resource(registry, type_id) == MapGet(registry.resource_indices, type_id)

\* Relationships::new_component_relationship_kind: the entry is inserted
\* before the assert.
new_component_relationship_kind(registry, type_id) ==
    LET id == Len(registry.kinds)
        prev_inserted == MapGet(registry.component_indices, type_id)
        inserted == [registry EXCEPT !.component_indices = MapInsert(@, type_id, id)]
    IN  IF prev_inserted # <<>> THEN Panicked(inserted)
        ELSE Returned([inserted EXCEPT !.kinds =
                          Append(@, [data |-> type_id, id |-> id])], id)

\* Relationships::new_resource_relationship_kind.
new_resource_relationship_kind(registry, type_id) ==
    LET id == Len(registry.kinds)
        prev_inserted == MapGet(registry.resource_indices, type_id)
        inserted == [registry EXCEPT !.resource_indices = MapInsert(@, type_id, id)]
    IN  IF prev_inserted # <<>> THEN Panicked(inserted)
        ELSE Returned([inserted EXCEPT !.kinds =
                          Append(@, [data |-> type_id, id |-> id])], id)

\* Relationships::get_component_relationship_kind_or_insert.
get_component_relationship_kind_or_insert(registry, type_id) ==
    LET kind == MapGet(registry.component_indices, type_id)
    IN  IF kind # <<>> THEN Returned(registry, kind[1])
        ELSE new_component_relationship_kind(registry, type_id)

\* Relationships::get_resource_relationship_kind_or_insert: the type is
\* looked up in component_indices.
get_resource_relationship_kind_or_insert(registry, type_id) ==
    LET kind == MapGet(registry.component_indices, type_id)
    IN  IF kind # <<>> THEN Returned(registry, kind[1])
        ELSE new_resource_relationship_kind(registry, type_id)

\* Faulty variant of new_relationship_id: the ids count from the number of
\* kinds.
new_relationship_id_of_kinds(registry) == Len(registry.kinds)

\* RelationshipId(relationships.len()).
new_relationship_id(registry) == Len(registry.relationships)

\* Relationships::get_relationship_info_or_insert_with.
get_relationship_info_or_insert_with(registry, relationship) ==
    LET found == MapGet(registry.relationship_indices, relationship)
        rel_id == new_relationship_id(registry)
    IN  IF found # <<>> THEN Returned(registry, found[1])
        ELSE Returned([registry EXCEPT
                          !.relationship_indices = MapInsert(@, relationship, rel_id),
                          !.relationships = Append(@, [ id |-> rel_id,
                                                        kind |-> relationship[1],
                                                        target |-> relationship[2] ])],
                      rel_id)

\* Relationships::register_relationship: Err for a relationship that is
\* there.
register_relationship(registry, relationship) ==
    LET rel_id == new_relationship_id(registry)
    IN  IF relationship \in DOMAIN registry.relationship_indices
        THEN [registry |-> registry, outcome |-> "Err", id |-> 0]
        ELSE Returned([registry EXCEPT
                          !.relationship_indices = MapInsert(@, relationship, rel_id),
                          !.relationships = Append(@, [ id |-> rel_id,
                                                        kind |-> relationship[1],
                                                        target |-> relationship[2] ])],
                      rel_id)

\* Relationships::get_component_info_or_insert_with, on the registry with
\* both tables (the id of the relationship without target is returned).
get_component_info_or_insert(registry, type_id) ==
    LET known == relation_kind_of_component(registry, type_id)
        kind == IF known # <<>> THEN Returned(registry, known[1])
                ELSE new_component_relationship_kind(registry, type_id)
    IN  get_relationship_info_or_insert_with(kind.registry, <<kind.id, 0>>)

\* Relationships::get_resource_info_or_insert_with.
get_resource_info_or_insert_with(registry, type_id) ==
    LET known == relation_kind_of_resource(registry, type_id)
        kind == IF known # <<>> THEN Returned(registry, known[1])
                ELSE new_resource_relationship_kind(registry, type_id)
    IN  get_relationship_info_or_insert_with(kind.registry, <<kind.id, 0>>)

\* The methods of the registry that take a type.
TypeOps ==
    { "get_component_relationship_kind_or_insert",
      "get_resource_relationship_kind_or_insert",
      "get_component_info_or_insert_with", "get_resource_info_or_insert_with" }

RelationshipOps == {"get_relationship_info_or_insert_with", "register_relationship"}

CallOnType(op, registry, type_id) ==
    CASE op = "get_component_relationship_kind_or_insert" ->
            get_component_relationship_kind_or_insert(registry, type_id)
      [] op = "get_resource_relationship_kind_or_insert" ->
            get_resource_relationship_kind_or_insert(registry, type_id)
      [] op = "get_component_info_or_insert_with" ->
            get_component_info_or_insert(registry, type_id)
      [] op = "get_resource_info_or_insert_with" ->
            get_resource_info_or_insert_with(registry, type_id)

CallOnRelationship(op, registry, relationship) ==
    IF op = "register_relationship" THEN register_relationship(registry, relationship)
    ELSE get_relationship_info_or_insert_with(registry, relationship)

\* A call is recorded with what the same call with the same key returned
\* before and with the lookups of the type before and after it.
RecordCall(op, key, result) ==
    /\ world_relationships' = result.registry
    /\ relationships_call' =
          << [ op |-> op, key |-> key, outcome |-> result.outcome, id |-> result.id,
               earlier |-> { r[3] : r \in { q \in returned : q[1] = op /\ q[2] = key } },
               before |-> world_relationships ] >>
    /\ returned' = IF result.outcome = "returned"
                   THEN returned \cup { <<op, key, result.id>> }
                   ELSE returned

InRegistryBounds(registry) ==
    /\ Len(registry.kinds) <= MaxKinds
    /\ Len(registry.relationships) <= MaxRelationships

\* The calls a run of the program makes are bounded.
InCallBounds(op, key, result) ==
    result.outcome = "returned" =>
        Cardinality(returned \cup { <<op, key, result.id>> }) <= MaxReturned

\* A panic ends the program.
RegistryInUse ==
    IF relationships_call = <<>> THEN TRUE
    ELSE relationships_call[1].outcome # "panicked"

\* A method that takes a type is called.
CallWithType ==
    /\ RegistryInUse
    /\ \E op \in TypeOps, type_id \in RegistryTypes :
        LET result == CallOnType(op, world_relationships, type_id)
        IN  /\ InRegistryBounds(result.registry)
            /\ InCallBounds(op, type_id, result)
            /\ RecordCall(op, type_id, result)
    /\ UNCHANGED nonKindVars

\* A method that takes a relationship is called, with a kind of the
\* registry.
CallWithRelationship ==
    /\ RegistryInUse
    /\ \E op \in RelationshipOps,
          kind \in 0..(Len(world_relationships.kinds) - 1), target \in RegistryTargets :
        LET result == CallOnRelationship(op, world_relationships, <<kind, target>>)
        IN  /\ InRegistryBounds(result.registry)
            /\ InCallBounds(op, <<kind, target>>, result)
            /\ RecordCall(op, <<kind, target>>, result)
    /\ UNCHANGED nonKindVars

NextKinds ==
    \/ CallWithType
    \/ CallWithRelationship

SpecKinds == Init /\ [][NextKinds]_vars

\* ============================== state transitions and the outer schedule
\* The values of the States type S.
StateValues == {"A", "B"}

\* The labels OnEnter(S), OnExit(S) and OnTransition { from, to }.
OnEnter(state) == <<"OnEnter", state>>

OnExit(state) == <<"OnExit", state>>

OnTransition(from, to) == <<"OnTransition", from, to>>

TransitionLabels ==
    { OnEnter(s) : s \in StateValues } \cup { OnExit(s) : s \in StateValues }
        \cup { OnTransition(a, b) : a \in StateValues, b \in StateValues }

\* world.try_run_schedule(label).ok(): the schedule runs if the world holds
\* it, the error for a label without schedule is dropped.
try_run_schedule(ran, label) ==
    IF label \in world_schedules THEN Append(ran, label) ELSE ran

\* Faulty variant of transition_labels: OnEnter is tried before OnTransition.
transition_labels_enter_first(exited, entered) ==
    << OnExit(exited), OnEnter(entered), OnTransition(exited, entered) >>

\* The labels of the three calls of try_run_schedule in
\* apply_state_transition, in the order of the calls.
transition_labels(exited, entered) ==
    << OnExit(exited), OnTransition(exited, entered), OnEnter(entered) >>

RECURSIVE try_run_schedules(_, _)
try_run_schedules(ran, labels) ==
    IF labels = <<>> THEN ran
    ELSE try_run_schedules(try_run_schedule(ran, Head(labels)), Tail(labels))

\* World::add_schedule with one of the labels of the states.
AddSchedule ==
    /\ Cardinality(world_schedules) < MaxSchedules
    /\ \E label \in TransitionLabels \ world_schedules :
          world_schedules' = world_schedules \cup {label}
    /\ UNCHANGED <<state_resource, next_state_resource, next_state_changed,
                   schedules_ran, transition_call, run_at_least_once, outer_ran>>
    /\ UNCHANGED nonAppVars

\* NextState::set, by a system of the user.
NextStateSet ==
    /\ \E state \in StateValues :
          /\ next_state_resource # << state >>
          /\ next_state_resource' = << state >>
    /\ UNCHANGED <<world_schedules, state_resource, next_state_changed,
                   schedules_ran, transition_call, run_at_least_once, outer_ran>>
    /\ UNCHANGED nonAppVars

\* Faulty variant of state_differs: every queued state is a transition.
state_differs_always(state, entered) == TRUE

\* *state_resource != entered of apply_state_transition.
state_differs(state, entered) == state # entered

\* Faulty variant of next_state_after: NextState is emptied when the
\* schedules are through.
next_state_after_cleared(queued_by_schedules) == <<>>

\* NextState at the end of apply_state_transition: take() emptied it before
\* the schedules ran, and nothing touches it after them, so it holds what
\* their systems queued.
next_state_after(queued_by_schedules) == queued_by_schedules

\* What the systems of the schedules that ran may have queued with
\* NextState::set: nothing, or a state.
QueuedBySchedules(ran) ==
    IF ran = <<>> THEN { <<>> }
    ELSE { <<>> } \cup { << state >> : state \in StateValues }

\* apply_state_transition: the queued state is taken out of NextState, which
\* is marked as changed if there was one; a queued state that differs from
\* State replaces it, and the three schedules are tried, whose systems may
\* queue a state in turn.
ApplyStateTransition ==
    LET entered == next_state_resource[1]
        exited == state_resource
        transition == /\ next_state_resource # <<>>
                      /\ state_differs(state_resource, next_state_resource[1])
        ran == IF transition
               THEN try_run_schedules(<<>>, transition_labels(exited, entered))
               ELSE <<>>
    IN  \E queued_by_schedules \in QueuedBySchedules(ran) :
          /\ transition_call' = << [ queued |-> next_state_resource,
                                     state |-> state_resource,
                                     schedules |-> world_schedules,
                                     queued_by_schedules |-> queued_by_schedules ] >>
          /\ next_state_resource' = next_state_after(queued_by_schedules)
          /\ next_state_changed' = (next_state_resource # <<>>)
          /\ state_resource' = IF transition THEN entered ELSE state_resource
          /\ schedules_ran' = ran
          /\ UNCHANGED <<world_schedules, run_at_least_once, outer_ran>>
          /\ UNCHANGED nonAppVars

\* Faulty variant of startup_pending: Startup is run by every call.
startup_pending_always(local) == TRUE

\* The test of outer_loop on its Local<bool>.
startup_pending(local) == ~local

\* CoreSchedule::outer_loop, as the system of the Outer schedule that
\* App::update runs: Startup if the Local says it did not run, then Main.
OuterLoop ==
    /\ Len(outer_ran) < MaxUpdates
    /\ IF startup_pending(run_at_least_once)
       THEN /\ outer_ran' = Append(outer_ran, << "Startup", "Main" >>)
            /\ run_at_least_once' = TRUE
       ELSE /\ outer_ran' = Append(outer_ran, << "Main" >>)
            /\ UNCHANGED run_at_least_once
    /\ UNCHANGED <<world_schedules, state_resource, next_state_resource,
                   next_state_changed, schedules_ran, transition_call>>
    /\ UNCHANGED nonAppVars

NextApp ==
    \/ AddSchedule
    \/ NextStateSet
    \/ ApplyStateTransition
    \/ OuterLoop

SpecApp == Init /\ [][NextApp]_vars

\* ==================================================== check_change_ticks
\* u32::MAX of check_change_ticks, for a change tick of StageTickBits bits.
StageTickMax == Pow2(StageTickBits) - 1

\* Faulty variant of MIN_TIME_SINCE_LAST_CHECK: a quarter of the range.
MIN_TIME_SINCE_LAST_CHECK_quarter == StageTickMax \div 4

\* const MIN_TIME_SINCE_LAST_CHECK of check_change_ticks.
MIN_TIME_SINCE_LAST_CHECK == StageTickMax \div 8

\* u32::wrapping_sub and wrapping_add at that width.
stage_wrapping_sub(a, b) == (a - b + Pow2(StageTickBits)) % Pow2(StageTickBits)

stage_wrapping_add(a, b) == (a + b) % Pow2(StageTickBits)

\* The assertion of rebuild_orders_and_dependencies on the number of systems
\* of the stage.
systems_within_limit(n) == n < StageTickMax \div 8

\* SystemStage::check_change_ticks: the new last_tick_check and whether the
\* pass over the ticks of the systems and of the world ran.
check_change_ticks(tick, last) ==
    LET time_since_last_check == stage_wrapping_sub(tick, last)
    IN  IF time_since_last_check > MIN_TIME_SINCE_LAST_CHECK
        THEN [pass |-> TRUE, last_tick_check |-> tick,
              time_since_last_check |-> time_since_last_check]
        ELSE [pass |-> FALSE, last_tick_check |-> last,
              time_since_last_check |-> time_since_last_check]

\* add_system on a stage that rebuild_orders_and_dependencies accepts.
AddTickedSystem ==
    /\ systems_within_limit(stage_systems + 1)
    /\ stage_systems' = stage_systems + 1
    /\ UNCHANGED <<world_change_tick, last_tick_check, ticks_since_check, last_check,
                   nonCheckVars>>

\* One iteration of the system loop of run: the systems the run criteria let
\* run advance the change tick of the world by one each, and
\* check_change_ticks is called at the end.  The count of the ticks since
\* the last pass stops at the range of the tick.
SystemLoopIteration ==
    \E executed \in 0..stage_systems :
        LET new_tick == stage_wrapping_add(world_change_tick, executed)
            elapsed == IF ticks_since_check + executed > StageTickMax
                       THEN StageTickMax + 1 ELSE ticks_since_check + executed
            check == check_change_ticks(new_tick, last_tick_check)
        IN  /\ world_change_tick' = new_tick
            /\ last_tick_check' = check.last_tick_check
            /\ ticks_since_check' = IF check.pass THEN 0 ELSE elapsed
            /\ last_check' = << [pass |-> check.pass, elapsed |-> elapsed,
                                 time_since_last_check |-> check.time_since_last_check] >>
            /\ UNCHANGED <<stage_systems, nonCheckVars>>

NextCheck ==
    \/ AddTickedSystem
    \/ SystemLoopIteration

SpecCheck == Init /\ [][NextCheck]_vars

\* ============================================ SystemOrderAmbiguity::eq
\* The names of systems and of components, as numbers in the order of the
\* strings, and the segments of the values that are compared.
SystemNames == 1..3

ConflictNameSet == 1..2

EqSegments == {"Parallel", "ExclusiveAtStart"}

\* struct SystemOrderAmbiguity: two system names, a vector of conflicts and
\* a segment.
SystemOrderAmbiguities ==
    [ system_names : [1..2 -> SystemNames],
      conflicts : UNION { [1..n -> ConflictNameSet] : n \in 0..MaxConflicts },
      segment : EqSegments ]

\* slice::sort on a clone of the names or of the conflicts.
RECURSIVE insert_sorted(_, _)
insert_sorted(sorted, x) ==
    IF sorted = <<>> THEN << x >>
    ELSE IF x <= Head(sorted) THEN << x >> \o sorted
    ELSE << Head(sorted) >> \o insert_sorted(Tail(sorted), x)

RECURSIVE sort(_)
sort(seq) ==
    IF seq = <<>> THEN <<>>
    ELSE insert_sorted(sort(Tail(seq)), Head(seq))

\* impl PartialEq for SystemOrderAmbiguity: eq.  other_names and
\* other_conflicts are clones of the fields of self, as in the source.
ambiguity_eq(self, other) ==
    LET self_names == sort(self.system_names)
        other_names == sort(self.system_names)
        self_conflicts == sort(self.conflicts)
        other_conflicts == sort(self.conflicts)
    IN  /\ self_names = other_names
        /\ self_conflicts = other_conflicts
        /\ self.segment = other.segment

\* impl Hash for SystemOrderAmbiguity: what is fed to the hasher.
ambiguity_hash(self) ==
    << sort(self.system_names), sort(self.conflicts), self.segment >>

\* self == other for two values, as assert_eq! on the HashSets of
\* tests::correct_ambiguities evaluates it.  The comparison is pure: one
\* call covers every call.
CompareAmbiguities ==
    /\ eq_call = <<>>
    /\ \E self \in SystemOrderAmbiguities, other \in SystemOrderAmbiguities :
          eq_call' = << [ self |-> self, other |-> other,
                          equal |-> ambiguity_eq(self, other),
                          same_hash |-> ambiguity_hash(self) = ambiguity_hash(other) ] >>
    /\ UNCHANGED nonEqVars

NextEq == CompareAmbiguities

SpecEq == Init /\ [][NextEq]_vars

\* ======================================== par_for_each_unchecked_manual
\* The sizes a batch may have: none, a few rows, more rows than a table
\* holds, and usize::MAX.
BatchSizes == 0..(MaxRows + 1) \cup {USIZE_MAX}

\* The lengths of the matched tables (of the matched archetypes, if fetch or
\* filter is not dense).
MatchedLens == UNION { [1..n -> 0..MaxRows] : n \in 0..2 }

\* The rows of the matched tables, by table and index.
RowsOf(lens) == { <<t, row>> \in (1..Len(lens)) \X (0..(MaxRows - 1)) : row < lens[t] }

\* batch_size.min(table.len() - offset).
batch_len(batch_size, remaining) ==
    IF batch_size < remaining THEN batch_size ELSE remaining

\* Faulty variant of next_offset: one row is left out between two batches.
next_offset_gap(offset, batch_size) == (offset + batch_size + 1) % (USIZE_MAX + 1)

\* offset += batch_size, on a usize.
next_offset(offset, batch_size) == (offset + batch_size) % (USIZE_MAX + 1)

\* The call: the matched tables and their rows are those of the cache of
\* the query, the filter passes the rows of some indices.
ParForEach ==
    /\ par_pc = "idle"
    /\ \E dense \in BOOLEAN, lens \in MatchedLens, batch_size \in BatchSizes,
          passing \in SUBSET (0..(MaxRows - 1)) :
          /\ par_input' = << [dense |-> dense, lens |-> lens,
                              batch_size |-> batch_size, passing |-> passing] >>
          /\ par_calls' = [ row \in RowsOf(lens) |-> 0 ]
    /\ par_pc' = "for"
    /\ par_cursor' = 1
    /\ par_offset' = 0
    /\ par_tasks' = {}
    /\ UNCHANGED nonParVars

\* One test of while offset < table.len(): a batch is spawned on the scope
\* and offset moves on, or the for loop goes to the next table.
WhileOffset ==
    /\ par_pc = "for"
    /\ par_cursor <= Len(par_input[1].lens)
    /\ LET len == par_input[1].lens[par_cursor]
           batch_size == par_input[1].batch_size
       IN  IF par_offset < len
           THEN /\ par_tasks' = par_tasks \cup
                      { [table |-> par_cursor, offset |-> par_offset,
                         len |-> batch_len(batch_size, len - par_offset)] }
                /\ par_offset' = next_offset(par_offset, batch_size)
                /\ UNCHANGED par_cursor
           ELSE /\ par_cursor' = par_cursor + 1
                /\ par_offset' = 0
                /\ UNCHANGED par_tasks
    /\ UNCHANGED <<par_pc, par_input, par_calls, nonParVars>>

\* The end of the for loop: the closure of task_pool.scope returns.
ForEnd ==
    /\ par_pc = "for"
    /\ par_cursor > Len(par_input[1].lens)
    /\ par_pc' = "scope"
    /\ UNCHANGED <<par_input, par_cursor, par_offset, par_tasks, par_calls, nonParVars>>

\* A spawned batch runs on the task pool: func is called for the rows
\* offset..offset + len that pass the filter.
RunBatch ==
    /\ par_pc \in {"for", "scope"}
    /\ \E task \in par_tasks :
          /\ par_tasks' = par_tasks \ {task}
          /\ par_calls' =
                [ row \in DOMAIN par_calls |->
                    IF /\ row[1] = task.table
                       /\ row[2] >= task.offset
                       /\ row[2] < task.offset + task.len
                       /\ row[2] \in par_input[1].passing
                    THEN par_calls[row] + 1 ELSE par_calls[row] ]
    /\ UNCHANGED <<par_pc, par_input, par_cursor, par_offset, nonParVars>>

\* task_pool.scope returns when every spawned batch has run.
ScopeReturn ==
    /\ par_pc = "scope"
    /\ par_tasks = {}
    /\ par_pc' = "done"
    /\ UNCHANGED <<par_input, par_cursor, par_offset, par_tasks, par_calls, nonParVars>>

NextBatches ==
    \/ ParForEach
    \/ WhileOffset
    \/ ForEnd
    \/ RunBatch
    \/ ScopeReturn

SpecBatches == Init /\ [][NextBatches]_vars

\* The thread of the caller goes on with its loops, the task pool runs every
\* batch it was handed, and the scope returns once they are through.
SpecBatchesFair ==
    /\ SpecBatches
    /\ WF_vars(WhileOffset)
    /\ WF_vars(ForEnd)
    /\ WF_vars(RunBatch)
    /\ WF_vars(ScopeReturn)

\* ===================================================== entity_sync_system
\* A map with one more entry, and a map without the entries of some keys.
MapPut(map, key, value) ==
    [ k \in (DOMAIN map) \cup {key} |-> IF k = key THEN value ELSE map[k] ]

MapWithout(map, keys) == [ k \in (DOMAIN map) \ keys |-> map[k] ]

\* The observer of OnAdd of SyncToRenderWorld.
on_add(records, e) == Append(records, << "Added", e >>)

\* Faulty variant of on_remove: no record is pushed.
on_remove_silent(records, render_entities, e) == records

\* The observer of OnRemove of SyncToRenderWorld: query.get(entity) finds
\* the RenderEntity of the entity, if it has one.
on_remove(records, render_entities, e) ==
    IF e \in DOMAIN render_entities
    THEN Append(records, << "Removed", render_entities[e] >>)
    ELSE records

\* The body of the loop of entity_sync_system for one record.
sync_record(record, world) ==
    IF record[1] = "Added"
    THEN IF record[2] \notin main_alive THEN world
         ELSE IF record[2] \in DOMAIN world.render_entity
         THEN [world EXCEPT !.panic = TRUE]
         ELSE LET id == world.render_spawned + 1
              IN  [world EXCEPT
                     !.render_spawned = id,
                     !.main_entity = MapPut(@, id, record[2]),
                     !.render_entity = MapPut(@, record[2], id)]
    ELSE IF record[2] \in DOMAIN world.main_entity
         THEN [world EXCEPT !.main_entity = MapWithout(@, {record[2]})]
         ELSE world

\* for record in pending.drain(..): a panic ends the loop.
RECURSIVE sync_records(_, _)
sync_records(records, world) ==
    IF records = <<>> \/ world.panic THEN world
    ELSE sync_records(Tail(records), sync_record(Head(records), world))

\* main_world.spawn_empty().
SpawnMain ==
    /\ sync_state # "panicked"
    /\ main_spawned < MaxMainEntities
    /\ main_spawned' = main_spawned + 1
    /\ main_alive' = main_alive \cup {main_spawned + 1}
    /\ sync_state' = "changed"
    /\ UNCHANGED <<sync_marked, render_entity, main_entity, render_spawned, pending,
                   marker_history, nonSyncVars>>

\* insert(SyncToRenderWorld) on an entity without the marker: OnAdd fires.
InsertSyncToRenderWorld ==
    /\ sync_state # "panicked"
    /\ Len(pending) < MaxPending
    /\ \E e \in main_alive \ sync_marked :
          /\ sync_marked' = sync_marked \cup {e}
          /\ pending' = on_add(pending, e)
          /\ marker_history' = [marker_history EXCEPT !.added = @ \cup {e}]
    /\ sync_state' = "changed"
    /\ UNCHANGED <<main_spawned, main_alive, render_entity, main_entity,
                   render_spawned, nonSyncVars>>

\* remove::<SyncToRenderWorld>() on a live entity: OnRemove fires.
RemoveSyncToRenderWorld ==
    /\ sync_state # "panicked"
    /\ Len(pending) < MaxPending
    /\ \E e \in sync_marked :
          /\ sync_marked' = sync_marked \ {e}
          /\ pending' = on_remove(pending, render_entity, e)
          /\ marker_history' = [marker_history EXCEPT !.removed = @ \cup {e}]
    /\ sync_state' = "changed"
    /\ UNCHANGED <<main_spawned, main_alive, render_entity, main_entity,
                   render_spawned, nonSyncVars>>

\* main_world.despawn(entity): OnRemove fires for the marker if the entity
\* carries it, and the components of the entity are gone.
DespawnMain ==
    /\ sync_state # "panicked"
    /\ Len(pending) < MaxPending
    /\ \E e \in main_alive :
          /\ main_alive' = main_alive \ {e}
          /\ sync_marked' = sync_marked \ {e}
          /\ pending' = IF e \in sync_marked
                        THEN on_remove(pending, render_entity, e) ELSE pending
          /\ render_entity' = MapWithout(render_entity, {e})
    /\ sync_state' = "changed"
    /\ UNCHANGED <<main_spawned, main_entity, render_spawned, marker_history,
                   nonSyncVars>>

\* entity_sync_system(main_world, render_world).
EntitySync ==
    /\ sync_state = "changed"
    /\ LET world == sync_records(pending,
                        [render_entity |-> render_entity, main_entity |-> main_entity,
                         render_spawned |-> render_spawned, panic |-> FALSE])
       IN  /\ render_entity' = world.render_entity
           /\ main_entity' = world.main_entity
           /\ render_spawned' = world.render_spawned
           /\ sync_state' = IF world.panic THEN "panicked" ELSE "synced"
           /\ marker_history' = [marker_history EXCEPT
                                   !.synchronized = @ \cup DOMAIN world.render_entity]
    /\ pending' = <<>>
    /\ UNCHANGED <<main_spawned, main_alive, sync_marked, nonSyncVars>>

NextSync ==
    \/ SpawnMain
    \/ InsertSyncToRenderWorld
    \/ RemoveSyncToRenderWorld
    \/ DespawnMain
    \/ EntitySync

SpecSync == Init /\ [][NextSync]_vars

\* ======================================================= termination of run
\* Systems of the executor and of the loop before it, with and without a run
\* criteria of their own.
AddLoopingSystem ==
    AddSystemOf({<<"Parallel", Unordered>>, <<"ExclusiveAtStart", Unordered>>},
                CriteriaOptions)

NextTermination ==
    \/ AddLoopingSystem
    \/ Run
    \/ EvaluateStageCriteria
    \/ EvaluateSystemRunCriteria
    \/ RunExclusiveSystem
    \/ FinishExclusive
    \/ ExecutorStart
    \/ ExecutorFinish
    \/ ExecutorReturn
    \/ ApplyBuffers
    \/ ReevaluateLoopingCriteria

SpecTermination == Init /\ [][NextTermination]_vars

\* The stage run criteria answers Yes or No.
StageCriteriaDecides ==
    /\ EvaluateStageCriteria
    /\ stage_should_run' \in {"Yes", "No"}

\* The system run criteria at the given index is evaluated again and answers
\* Yes or No.
SystemCriteriaDecides(index) ==
    /\ ReevaluateLoopingCriteria
    /\ index <= Len(run_criteria)
    /\ run_criteria[index].should_run \in CheckAgain
    /\ run_criteria'[index].should_run \in {"Yes", "No"}

\* Every step of run is taken once it is reached: the systems, the run
\* criteria and the executor return.  A run criteria that is asked again and
\* again does not answer YesAndCheckAgain or NoAndCheckAgain forever.
SpecTerminationFair ==
    /\ SpecTermination
    /\ WF_vars(EvaluateStageCriteria)
    /\ WF_vars(EvaluateSystemRunCriteria)
    /\ WF_vars(RunExclusiveSystem)
    /\ WF_vars(FinishExclusive)
    /\ WF_vars(ExecutorStart)
    /\ WF_vars(ExecutorFinish)
    /\ WF_vars(ExecutorReturn)
    /\ WF_vars(ApplyBuffers)
    /\ WF_vars(ReevaluateLoopingCriteria)
    /\ SF_vars(StageCriteriaDecides)
    /\ \A index \in 1..MaxContainers : SF_vars(SystemCriteriaDecides(index))

\* ================================================================ claims
\* What the properties read off the containers of a segment.
Started(systems) == \E i \in 1..Len(systems) : systems[i].ran \in {"running", "done"}

Finished(systems) == \A i \in 1..Len(systems) : systems[i].ran \in {"done", "skipped"}

AllSegments ==
    <<exclusive_at_start, parallel, exclusive_before_commands, exclusive_at_end>>

\* C1: in every iteration of the system loop the phases run in the order
\* at-start exclusive systems, parallel systems, before-commands exclusive
\* systems, apply buffers, at-end exclusive systems: no system of a phase
\* has started, and the buffers are not applied, before every system of the
\* earlier phases has finished, whatever the order of registration.
C1_PhaseOrder ==
    (pc \in IterationPhases) =>
        /\ Started(parallel) => Finished(exclusive_at_start)
        /\ Started(exclusive_before_commands) =>
              Finished(exclusive_at_start) /\ Finished(parallel)
        /\ buffers_applied =>
              /\ Finished(exclusive_at_start)
              /\ Finished(parallel)
              /\ Finished(exclusive_before_commands)
        /\ Started(exclusive_at_end) =>
              /\ Finished(exclusive_at_start)
              /\ Finished(parallel)
              /\ Finished(exclusive_before_commands)
              /\ apply_buffers => buffers_applied

\* An iteration in which an at-start, a parallel and an at-end system have
\* all run and the buffers were applied.
C1_Witness ==
    /\ pc = "ReevaluateLoopingCriteria"
    /\ buffers_applied
    /\ \E i \in 1..Len(exclusive_at_start) : exclusive_at_start[i].ran = "done"
    /\ \E i \in 1..Len(parallel) : parallel[i].ran = "done"
    /\ \E i \in 1..Len(exclusive_at_end) : exclusive_at_end[i].ran = "done"

\* a is ordered before b by the declarations of the two systems.
DeclaredBefore(systems, a, b) ==
    /\ a # b
    /\ \/ systems[a].labels \cap systems[b].after # {}
       \/ systems[a].before \cap systems[b].labels # {}

\* C2: when B is declared after a label of A, or A before a label of B, in
\* the same segment, B has not started before A has finished, whatever the
\* order of registration and with either executor.
C2_OrderRespected ==
    \A s \in 1..Len(AllSegments) :
        LET systems == AllSegments[s] IN
        \A a, b \in 1..Len(systems) :
            (DeclaredBefore(systems, a, b) /\ systems[b].ran \in {"running", "done"})
                => systems[a].ran = "done"

\* A parallel segment in which a system registered later has finished and
\* a system registered earlier and declared after it is running, under the
\* single-threaded executor.
C2_Witness ==
    /\ executor = "SingleThreadedExecutor"
    /\ \E a, b \in 1..Len(parallel) :
        /\ DeclaredBefore(parallel, a, b)
        /\ parallel[b].id < parallel[a].id
        /\ parallel[a].ran = "done"
        /\ parallel[b].ran = "running"

\* The declarations of a segment hold a cycle: some system is reached from
\* itself along DeclaredBefore or is declared after its own label.
SelfOrdered(systems, a) ==
    \/ systems[a].labels \cap systems[a].after # {}
    \/ systems[a].before \cap systems[a].labels # {}

RECURSIVE ReachedFrom(_, _, _)
ReachedFrom(systems, from, steps) ==
    IF steps = 0 THEN from
    ELSE LET next == { b \in 1..Len(systems) :
                         \E a \in from : DeclaredBefore(systems, a, b) }
         IN  ReachedFrom(systems, from \cup next, steps - 1)

Cyclic(systems) ==
    \E a \in 1..Len(systems) :
        \/ SelfOrdered(systems, a)
        \/ \E b \in 1..Len(systems) :
              /\ DeclaredBefore(systems, a, b)
              /\ a \in ReachedFrom(systems, {b}, Len(systems)) \ {b}

AnyCyclic == \E s \in 1..Len(AllSegments) : Cyclic(AllSegments[s])

\* C3: a stage that holds a dependency cycle in a segment (a system declared
\* after its own label included) never gets past the rebuild of its first
\* run: the run panics, and no system has been executed in it.
C3_CyclePanics ==
    AnyCyclic =>
        /\ pc \in {"idle", "panicked"}
        /\ (pc = "idle") => systems_modified
        /\ \A s \in 1..Len(AllSegments) : ~Started(AllSegments[s])

\* The run of a stage with a cycle has panicked.
C3_Witness == pc = "panicked" /\ AnyCyclic

\* C4: when the stage run criteria evaluates to No, run returns at once: no
\* system run criteria is evaluated, no system runs and no buffer is
\* applied.
C4_StageNoReturns ==
    [][ (pc = "EvaluateStageCriteria" /\ stage_should_run' = "No") =>
            /\ pc' = "idle"
            /\ run_criteria' = run_criteria
            /\ entities' = entities
            /\ buffers_applied' = FALSE
            /\ \A i \in 1..Len(parallel) : parallel'[i].buffer = parallel[i].buffer
            /\ ~Started(exclusive_at_start') /\ ~Started(parallel')
            /\ ~Started(exclusive_before_commands') /\ ~Started(exclusive_at_end')
      ]_vars

\* run has returned on No from a stage that holds systems and run criteria.
C4_Witness ==
    /\ pc = "idle"
    /\ stage_should_run = "No"
    /\ NumSystems > 0
    /\ Len(run_criteria) > 0

\* The result a container's run criteria gave for the current iteration.
CriteriaResult(container) == run_criteria[container.run_criteria].should_run

Executed(container) == container.ran \in {"running", "done"}

\* C5: a system with no run criteria is executed in the first iteration of
\* the system loop of a pass and in no later iteration of that pass.
C5_NoCriteriaFirstIterationOnly ==
    (pc \in IterationPhases) =>
        \A s \in 1..Len(AllSegments) : \A i \in 1..Len(AllSegments[s]) :
            LET container == AllSegments[s][i] IN
            (container.run_criteria = 0) =>
                IF first_iteration
                THEN /\ container.ran # "skipped"
                     /\ (pc = "ReevaluateLoopingCriteria") => container.ran = "done"
                ELSE ~Executed(container)

\* A later iteration has ended in which a system with run criteria ran and
\* a system with none was passed over.
C5_Witness ==
    /\ pc = "ReevaluateLoopingCriteria"
    /\ ~first_iteration
    /\ \E s \in 1..Len(AllSegments) : \E i, j \in 1..Len(AllSegments[s]) :
        /\ AllSegments[s][i].run_criteria = 0
        /\ AllSegments[s][i].ran = "skipped"
        /\ AllSegments[s][j].run_criteria # 0
        /\ AllSegments[s][j].ran = "done"

\* C6, as the specification words it: after an iteration another one is
\* performed if and only if some run criteria reports YesAndCheckAgain or
\* NoAndCheckAgain when the looping criteria are evaluated again.
C6_LoopIffCheckAgain ==
    [][ (pc = "ReevaluateLoopingCriteria") =>
            ( (pc' = "RunExclusiveAtStart") <=>
              \E i \in 1..Len(run_criteria) : run_criteria'[i].should_run \in CheckAgain )
      ]_vars

\* C6, amended: after an iteration another one is performed if and only if
\* some run criteria that had asked to be checked again reports Yes,
\* YesAndCheckAgain or NoAndCheckAgain when it is evaluated again; the loop
\* ends when every such criteria reports No.
C6_LoopIffNotNo ==
    [][ (pc = "ReevaluateLoopingCriteria") =>
            ( (pc' = "RunExclusiveAtStart") <=>
              \E i \in 1..Len(run_criteria) :
                  /\ run_criteria[i].should_run \in CheckAgain
                  /\ run_criteria'[i].should_run # "No" )
      ]_vars

\* A later iteration begins after a criteria was evaluated again to Yes.
C6_Witness ==
    /\ pc = "RunExclusiveAtStart"
    /\ ~first_iteration
    /\ \E i \in 1..Len(run_criteria) : run_criteria[i].should_run = "Yes"

\* C7: a system with run criteria is executed in an iteration exactly when
\* the result of its criteria is Yes or YesAndCheckAgain, and a system that
\* is skipped stops no system ordered after it: by the end of the iteration
\* every system has run or been skipped according to its own criteria.
C7_RunsIffCriteriaYes ==
    (pc \in IterationPhases) =>
        \A s \in 1..Len(AllSegments) : \A i \in 1..Len(AllSegments[s]) :
            LET container == AllSegments[s][i]
                wanted == IF container.run_criteria = 0 THEN first_iteration
                          ELSE CriteriaResult(container) \in {"Yes", "YesAndCheckAgain"}
            IN  /\ (container.run_criteria # 0 /\ Executed(container)) => wanted
                /\ (container.run_criteria # 0 /\ container.ran = "skipped") => ~wanted
                /\ (pc = "ReevaluateLoopingCriteria") =>
                      container.ran = IF wanted THEN "done" ELSE "skipped"

\* A parallel system has run although the system it is ordered after was
\* skipped by its run criteria; another was run by YesAndCheckAgain.
C7_Witness ==
    /\ pc = "ReevaluateLoopingCriteria"
    /\ \E a, b \in 1..Len(parallel) :
        /\ a \in parallel[b].dependencies
        /\ parallel[a].run_criteria # 0
        /\ parallel[a].ran = "skipped"
        /\ CriteriaResult(parallel[a]) = "NoAndCheckAgain"
        /\ parallel[b].ran = "done"

\* The world changes in this step.
WorldChanges == entities' # entities

\* The step is the apply-buffers step of an iteration, taken after every
\* before-commands exclusive system and before any at-end one.
AtApplyBuffersStep ==
    /\ pc = "ApplyBuffers"
    /\ Finished(exclusive_before_commands)
    /\ ~Started(exclusive_at_end)

\* The commands of the parallel systems that ran in the iteration are
\* applied by this step.
CommandsOfIterationApplied ==
    \A i \in 1..Len(parallel) : (parallel[i].ran = "done") => parallel'[i].buffer = 0

\* C8, as the specification words it: the commands queued by a parallel
\* system are applied to the world only at the apply-buffers step of the
\* iteration in which the system ran, after the before-commands exclusive
\* systems and before the at-end ones.
C8_AppliedAtApplyBuffersStep ==
    [][ /\ WorldChanges => AtApplyBuffersStep
        /\ (pc = "ApplyBuffers") => CommandsOfIterationApplied
      ]_vars

\* C8, amended: the commands queued by a parallel system never take effect
\* when they are issued.  While the apply_buffers flag of the stage is set
\* they are applied at the apply-buffers step of the iteration in which the
\* system ran, after the before-commands exclusive systems and before the
\* at-end ones; while it is not set run leaves them queued, and they are
\* applied when SystemStage::apply_buffers is called between two runs.
C8_AppliedWhenFlagSet ==
    [][ /\ WorldChanges => \/ AtApplyBuffersStep /\ apply_buffers
                           \/ pc = "idle"
        /\ (pc = "ApplyBuffers" /\ apply_buffers) => CommandsOfIterationApplied
        /\ (pc = "ApplyBuffers" /\ ~apply_buffers) => UNCHANGED entities
      ]_vars

\* The command of a parallel system has been applied after a before-commands
\* exclusive system ran and before the at-end exclusive system has.
C8_Witness ==
    /\ pc = "RunExclusiveAtEnd"
    /\ buffers_applied
    /\ entities = 1
    /\ \E i \in 1..Len(parallel) : parallel[i].ran = "done"
    /\ \E i \in 1..Len(exclusive_before_commands) : exclusive_before_commands[i].ran = "done"
    /\ \E i \in 1..Len(exclusive_at_end) : exclusive_at_end[i].ran = "pending"

\* b is reached from a along the dependencies of the systems.
RECURSIVE DependsOn(_, _, _, _)
DependsOn(systems, b, a, steps) ==
    /\ steps > 0
    /\ \/ a \in systems[b].dependencies
       \/ \E d \in systems[b].dependencies : DependsOn(systems, d, a, steps - 1)

Ordered(systems, a, b) ==
    \/ DependsOn(systems, a, b, Len(systems))
    \/ DependsOn(systems, b, a, Len(systems))

\* C9: find_ambiguities reports no ambiguity between two systems one of
\* which is a direct or transitive dependency of the other, whatever their
\* access and at every report level, Forbid included.
C9_NoAmbiguityBetweenOrdered ==
    \A k \in 1..Len(amb_result) :
        ~Ordered(amb_systems, amb_result[k][1], amb_result[k][2])

\* Three systems that write the same resource in a chain of dependencies,
\* the first and the last ordered only transitively: at Forbid nothing is
\* reported.
C9_Witness ==
    /\ amb_level = "Forbid"
    /\ Len(amb_systems) = 3
    /\ amb_systems[2].dependencies = {1}
    /\ amb_systems[3].dependencies = {2}
    /\ \A i \in 1..3 : amb_systems[i].writes = {"R"}
    /\ amb_result = <<>>

\* C10: N systems that all write the same resource, with no ordering
\* between them and no opt-out honoured (none is asked for, or the level is
\* Forbid), yield N*(N-1)/2 ambiguities: every unordered pair is reported
\* exactly once.
C10_EveryPairOnce ==
    LET n == Len(amb_systems)
        unordered == \A i \in 1..n : amb_systems[i].dependencies = {}
        same_resource == \A i \in 1..n : "R" \in amb_systems[i].writes
        no_opt_out == \/ amb_level = "Forbid"
                      \/ \A i \in 1..n : /\ amb_systems[i].detection = "Check"
                                         /\ ~amb_systems[i].internal
    IN  (amb_level # "Unset" /\ unordered /\ same_resource /\ no_opt_out) =>
            /\ Len(amb_result) * 2 = n * (n - 1)
            /\ \A a, b \in 1..n : (a < b) =>
                  Cardinality({ k \in 1..Len(amb_result) :
                      {amb_result[k][1], amb_result[k][2]} = {a, b} }) = 1

\* Three unordered systems that write the same resource, one of them marked
\* to ignore all ambiguities: three ambiguities at Forbid.
C10_Witness ==
    /\ amb_level = "Forbid"
    /\ Len(amb_systems) = 3
    /\ \A i \in 1..3 : amb_systems[i].dependencies = {} /\ "R" \in amb_systems[i].writes
    /\ \E i \in 1..3 : amb_systems[i].detection = "Ignore"
    /\ Len(amb_result) = 3

\* The pair of systems a and b is in the result of find_ambiguities.
Reported(a, b) ==
    \E k \in 1..Len(amb_result) : {amb_result[k][1], amb_result[k][2]} = {a, b}

\* System x asks for its ambiguities with system y to be ignored.
OptsOut(x, y) ==
    \/ x.detection = "Ignore"
    \/ x.detection = "IgnoreWithLabel" /\ x.ignore_labels \cap y.labels # {}

\* The two systems access the same data and one of them writes it, or one
\* of them is exclusive.
Conflicting(x, y) ==
    \/ x.exclusive
    \/ y.exclusive
    \/ (x.writes \cap (y.reads \cup y.writes)) \cup (y.writes \cap x.reads) # {}

C12_ForbidReportsAll ==
    amb_level = "Forbid" =>
        \A a, b \in 1..Len(amb_systems) :
            (/\ a # b
             /\ ~Ordered(amb_systems, a, b)
             /\ Conflicting(amb_systems[a], amb_systems[b]))
                => Reported(a, b)

\* Three unordered writers of the same resource at Forbid, two of them of
\* ignored crates and the third marked ignore-all: all three pairs are
\* reported.
C12_Witness ==
    /\ amb_level = "Forbid"
    /\ Len(amb_systems) = 3
    /\ \A i \in 1..3 : amb_systems[i].dependencies = {} /\ amb_systems[i].writes = {"R"}
    /\ amb_systems[1].internal /\ amb_systems[2].internal
    /\ amb_systems[3].detection = "Ignore"
    /\ Reported(1, 2) /\ Reported(1, 3) /\ Reported(2, 3)

\* C13: report_ambiguities panics if and only if the report level is Deny
\* or Forbid and at least one ambiguity is found at that level; at Allow,
\* Warn, WarnVerbose and WarnInternal it never panics.
C13_PanicsIffDenyOrForbid ==
    rep_level # "Unset" =>
        /\ (rep_outcome = "panicked") <=>
              (rep_level \in {"Deny", "Forbid"} /\ Len(rep_ambiguities) > 0)
        /\ rep_level \in {"Allow", "Warn", "WarnVerbose", "WarnInternal"}
              => rep_outcome # "panicked"

\* A stage with several ambiguities is reported at Deny: the report panics.
C13_Witness ==
    /\ rep_level = "Deny"
    /\ Len(rep_ambiguities) >= 2
    /\ rep_outcome = "panicked"

\* The place of a segment in the order documented for
\* SystemStage::ambiguities.
DocumentedRank(segment) ==
    CASE segment = "Parallel" -> 1
      [] segment = "ExclusiveAtStart" -> 2
      [] segment = "ExclusiveBeforeCommands" -> 3
      [] segment = "ExclusiveAtEnd" -> 4

\* C14: SystemStage::ambiguities returns the ambiguities grouped by segment
\* in the documented order: parallel, exclusive at start, exclusive before
\* commands, exclusive at end.
C14_DocumentedOrder ==
    \A i, j \in 1..Len(rep_ambiguities) :
        i < j => DocumentedRank(rep_ambiguities[i].segment)
                    <= DocumentedRank(rep_ambiguities[j].segment)

\* The order of the code: the ambiguities of exclusive-at-start come before
\* those of the parallel segment.
C14_Witness ==
    /\ Len(rep_ambiguities) = 2
    /\ rep_ambiguities[1].segment = "ExclusiveAtStart"
    /\ rep_ambiguities[2].segment = "Parallel"

\* The number of ticks from a to b, counted forwards around the wrap.
TicksFrom(a, b) == CHOOSE d \in Ticks : (a + d) % TickModulus = b

\* Tick t is after tick L in modular order, seen from the current tick C:
\* walking forwards from L, t is met before C is passed.
AfterInModularOrder(t, L, C) ==
    \E k \in 1..TicksFrom(L, C) : (L + k) % TickModulus = t

\* C15: for all ticks L, C and t with (C - t) and (C - L), modulo the width,
\* at most MAX_DELTA, is_changed(L, C) is true if and only if t is after L
\* in modular order, i.e. (C - t) mod 2^w < (C - L) mod 2^w, also when C has
\* wrapped.
C15_ChangedIffAfterLast ==
    tick_query # <<>> =>
        LET L == tick_query[1].last
            C == tick_query[1].current
            t == tick_query[1].ticks.changed
        IN  ((C - t) % TickModulus <= MAX_DELTA /\ (C - L) % TickModulus <= MAX_DELTA)
                => /\ tick_query[1].is_changed <=> AfterInModularOrder(t, L, C)
                   /\ tick_query[1].is_changed <=>
                         ((C - t) % TickModulus < (C - L) % TickModulus)

\* The current tick has wrapped past the last change tick of the system and
\* the component changed in between, before the wrap: it is reported.
C15_Witness ==
    /\ tick_query # <<>>
    /\ tick_query[1].current < tick_query[1].last
    /\ tick_query[1].ticks.changed > tick_query[1].last
    /\ (tick_query[1].current - tick_query[1].ticks.changed) % TickModulus <= MAX_DELTA
    /\ (tick_query[1].current - tick_query[1].last) % TickModulus <= MAX_DELTA
    /\ tick_query[1].is_changed

\* C16: after check_ticks(C) the added and the changed tick are at most
\* MAX_DELTA behind C in wrapping arithmetic, and a tick that was within
\* MAX_DELTA of C is left unchanged.
C16_TicksClamped ==
    tick_check # <<>> =>
        LET C == tick_check[1].current
            behind(t) == (C - t) % TickModulus
        IN  /\ C = change_tick
            /\ behind(component_ticks.added) <= MAX_DELTA
            /\ behind(component_ticks.changed) <= MAX_DELTA
            /\ behind(tick_check[1].before.added) <= MAX_DELTA
                  => component_ticks.added = tick_check[1].before.added
            /\ behind(tick_check[1].before.changed) <= MAX_DELTA
                  => component_ticks.changed = tick_check[1].before.changed
            /\ behind(tick_check[1].before.added) > MAX_DELTA
                  => behind(component_ticks.added) = MAX_DELTA
            /\ behind(tick_check[1].before.changed) > MAX_DELTA
                  => behind(component_ticks.changed) = MAX_DELTA

\* The added tick was too old and is clamped across the wrap; the changed
\* tick was recent and is kept.
C16_Witness ==
    /\ tick_check # <<>>
    /\ (tick_check[1].current - tick_check[1].before.added) % TickModulus > MAX_DELTA
    /\ (tick_check[1].current - tick_check[1].before.changed) % TickModulus <= MAX_DELTA
    /\ tick_check[1].before.changed # tick_check[1].current
    /\ component_ticks.added > tick_check[1].current
    /\ component_ticks.changed = tick_check[1].before.changed

\* C17: a stage remembers the world of its first run; a later run with
\* another world panics before any initialization step, run criteria or
\* system is executed: the world remembered never changes, a call of run
\* with another world leaves the stage and the world as they are and ends in
\* the panic, and whatever run executes is executed on the remembered world.
C17_OtherWorldPanics ==
    /\ [](pc \notin {"idle", "panicked"} => run_world = world_id)
    /\ [][ /\ world_id # 0 => world_id' = world_id
           /\ (pc = "idle" /\ pc' # "idle" /\ world_id = 0) => world_id' = run_world'
           /\ (pc = "idle" /\ pc' # "idle" /\ world_id # 0 /\ run_world' # world_id)
                => /\ pc' = "panicked"
                   /\ UNCHANGED <<stageConfig, containers, entities>> ]_vars

\* A stage with a system that has not been initialized yet, run with world 1
\* before, is run with world 2: it panics and the system stays
\* uninitialized.
C17_Witness ==
    /\ pc = "panicked"
    /\ world_id = 1
    /\ run_world = 2
    /\ systems_modified
    /\ uninitialized_parallel # <<>>

\* The bundle type lists a component kind twice.
SameKindTwice(T) == \E i, j \in 1..Len(T) : i < j /\ T[i] = T[j]

\* The bundle type has an entry or a BundleInfo in the registry.
Stored(T) ==
    \/ \E entry \in bundle_ids : entry[1] = T
    \/ \E k \in 1..Len(bundle_infos) :
          /\ Len(bundle_infos[k].relationship_ids) = Len(T)
          /\ \A i \in 1..Len(T) :
                kinds[relationships[bundle_infos[k].relationship_ids[i]]] = T[i]

\* C18: registering a bundle type whose component list holds a component
\* kind twice panics, and no BundleInfo of that bundle is stored in the
\* registry.
C18_DuplicatePanics ==
    /\ \A T \in BundleTypes : SameKindTwice(T) => ~Stored(T)
    /\ bundle_call # <<>> /\ SameKindTwice(bundle_call[1].type)
          => bundle_call[1].outcome = "panicked"
    /\ bundle_call # <<>> /\ bundle_call[1].outcome = "panicked"
          => SameKindTwice(bundle_call[1].type)

\* The bundle (A, B, A) is registered after another bundle that registered
\* B before A: the call panics, a single BundleInfo is stored.
C18_Witness ==
    /\ bundle_call # <<>>
    /\ bundle_call[1].type = <<"A", "B", "A">>
    /\ bundle_call[1].outcome = "panicked"
    /\ kinds = <<"B", "A">>
    /\ Len(bundle_infos) = 1

\* The component kind registered under a component id.
KindOf(component_id) == kinds[relationships[component_id]]

RECURSIVE AccessesOf(_)
AccessesOf(shape) ==
    IF shape.node = "Tuple"
    THEN UNION { AccessesOf(shape.items[i]) : i \in 1..Len(shape.items) }
    ELSE { <<shape.node, shape.kind>> }

\* C20: constructing a query whose shape holds both &T and &mut T of the
\* same component kind T, in either order and at any depth of tuple
\* nesting, panics during the initialization of the query state.
C20_SharedAndExclusivePanics ==
    query_shape # <<>> =>
        ((\E kind \in QueryKinds :
              {<<"Read", kind>>, <<"Write", kind>>} \subseteq AccessesOf(query_shape[1]))
            => query_outcome = "panicked")

\* &mut A in a nested tuple, then &A at the top: the call panics.
C20_Witness ==
    /\ query_shape =
          << TupleOf(<< TupleOf(<< ReadOf("B"), WriteOf("A") >>), ReadOf("A") >>) >>
    /\ query_outcome = "panicked"

\* What the properties read off the QueryState and the world.
ValidatingCalls == {"new", "set_relation_filter", "for_each"}

ArchetypeIds == 0..(Len(archetypes) - 1)

TableIds == { archetypes[i].table_id : i \in 1..Len(archetypes) }

CurrentCache == relation_filter_accesses[current_relation_filter]

\* The components of the archetype, or the columns of the table, an item
\* was fetched from.
PlaceOf(entry) ==
    IF entry.dense
    THEN TableColumns(
             archetypes[CHOOSE a \in 1..Len(archetypes) :
                            archetypes[a].table_id = entry.id].components,
             relation_storage)
    ELSE archetypes[entry.id + 1].components

\* The item Option<T> owes for a place: None where T does not match,
\* Some of the item of T where it does (the panic of T where T has none).
OptionItem(inner, components, relation_filter) ==
    IF matches(inner, components, relation_filter)
    THEN SomeOf(fetch_item(inner, components, relation_filter))
    ELSE << "None" >>

HoldingAll(kind, relation_filter) ==
    { id \in ArchetypeIds :
        /\ \E c \in archetypes[id + 1].components : c[1] = kind
        /\ \A target \in Range(relation_filter) :
              <<kind, target>> \in archetypes[id + 1].components }

\* C22: the query &Relation<R> matches an archetype if and only if the
\* archetype holds the kind R and the instance (R, target) for every target
\* of the relation filter: every archetype holding R for the empty filter,
\* only those holding both instances for a filter of two targets.
C22_RelationMatchesAllTargets ==
    (match_query = << RelationOf("R") >> /\ last_call \in ValidatingCalls) =>
        \A relation_filter \in DOMAIN relation_filter_accesses :
            relation_filter_accesses[relation_filter].matched_archetypes
              = HoldingAll("R", relation_filter)

\* A filter of two targets matched an archetype and left out one that the
\* empty filter matched.
C22_Witness ==
    /\ match_query = << RelationOf("R") >>
    /\ last_call = "set_relation_filter"
    /\ current_relation_filter = <<1, 2>>
    /\ CurrentCache.matched_archetypes # {}
    /\ \E id \in relation_filter_accesses[<<>>].matched_archetypes :
          id \notin CurrentCache.matched_archetypes

NoRepeats(seq) == Cardinality(Range(seq)) = Len(seq)

IsPrefix(short, long) ==
    /\ Len(short) <= Len(long)
    /\ \A i \in 1..Len(short) : short[i] = long[i]

\* A cache lists exactly the archetypes of the world that match under its
\* filter, and their tables, each once.
CacheExact(relation_filter) ==
    LET cache == relation_filter_accesses[relation_filter]
        matching == { id \in ArchetypeIds :
                        matches(match_query[1], archetypes[id + 1].components,
                                relation_filter) }
    IN  /\ Range(cache.matched_archetype_ids) = matching
        /\ Range(cache.matched_table_ids)
              = { archetypes[id + 1].table_id : id \in matching }
        /\ NoRepeats(cache.matched_archetype_ids)
        /\ NoRepeats(cache.matched_table_ids)
        /\ cache.archetype_generation = Len(archetypes)

\* A call that validates hands to new_archetype, for a cache that was
\* there, the archetypes from its watermark on, and for a new cache all of
\* them; it keeps what the caches listed.
ScansFromWatermark ==
    (match_query # <<>> /\ last_call' \in ValidatingCalls /\ match_query' = match_query) =>
        /\ DOMAIN relation_filter_accesses \subseteq DOMAIN relation_filter_accesses'
        /\ \A relation_filter \in DOMAIN relation_filter_accesses' :
              LET scanned == { pair[2] : pair \in { q \in examined' : q[1] = relation_filter } }
              IN  IF relation_filter \in DOMAIN relation_filter_accesses
                  THEN LET before == relation_filter_accesses[relation_filter]
                           after == relation_filter_accesses'[relation_filter]
                       IN  /\ scanned = { id \in 0..(Len(archetypes') - 1) :
                                            id >= before.archetype_generation }
                           /\ IsPrefix(before.matched_archetype_ids,
                                       after.matched_archetype_ids)
                           /\ IsPrefix(before.matched_table_ids, after.matched_table_ids)
                  ELSE scanned = 0..(Len(archetypes') - 1)

\* C23: after validate_world_and_update_archetypes every cache of the
\* QueryState lists exactly the archetypes of the world that match the
\* query under the filter of the cache, each archetype id and each table id
\* once; the call examines the archetypes from the previous watermark of
\* the cache on (all of them for a new cache) and removes no entry.
C23_CachesExactAndIncremental ==
    /\ []((match_query # <<>> /\ last_call \in ValidatingCalls) =>
             \A relation_filter \in DOMAIN relation_filter_accesses :
                 CacheExact(relation_filter))
    /\ [][ScansFromWatermark]_vars

\* for_each brought two caches up to date that had been scanned before:
\* only new archetypes were examined, one of them matched, and two matched
\* archetypes share a table.
C23_Witness ==
    /\ last_call = "for_each"
    /\ Cardinality(DOMAIN relation_filter_accesses) = 2
    /\ examined # {}
    /\ \A pair \in examined : pair[2] >= 1
    /\ \E pair \in examined : pair[2] \in CurrentCache.matched_archetypes
    /\ Len(CurrentCache.matched_table_ids) < Len(CurrentCache.matched_archetype_ids)

\* Two parameters of one system on the same resource type that cannot
\* coexist: a ResMut<T> after any parameter on T, a Res<T> after a ResMut<T>.
ParamsConflict(earlier, later) ==
    /\ earlier.type = later.type
    /\ \/ later.node = "ResMut"
       \/ earlier.node = "ResMut"

\* C24: the initialization of the parameters of a system panics as soon as
\* a ResMut<T> follows a Res<T> or ResMut<T> of the system, or a Res<T>
\* follows a ResMut<T>; parameters that are all Res<T> are accepted.
C24_ConflictingResPanics ==
    LET n == Len(param_inits)
    IN  /\ \A j \in 1..n : \A i \in 1..(j - 1) :
              ParamsConflict(param_inits[i], param_inits[j]) =>
                  (j = n /\ param_outcome = "panicked")
        /\ param_outcome = "panicked" =>
              \E i \in 1..(n - 1) : ParamsConflict(param_inits[i], param_inits[n])
        /\ (n > 0 /\ \A i \in 1..n : param_inits[i].node # "ResMut") =>
              param_outcome = "initialized"

\* Two Res<X> were accepted and the ResMut<X> after them panicked.
C24_Witness ==
    /\ param_inits = << [node |-> "Res", type |-> "X"], [node |-> "Res", type |-> "X"],
                        [node |-> "ResMut", type |-> "X"] >>
    /\ param_outcome = "panicked"

\* What the properties read off the registry.
Registry == world_relationships

LastRegistryCall == relationships_call[1]

\* C25: a relationship id belongs to one (kind, target) pair: every call of
\* get_relationship_info_or_insert_with and register_relationship with a
\* pair returns the id of the pair, two pairs never have the same id, and
\* the id is the index of the RelationshipInfo of the pair in the list of
\* the registry.
C25_RelationshipIdsUnique ==
    /\ \A i \in 1..Len(Registry.relationships) : Registry.relationships[i].id = i - 1
    /\ \A relationship \in DOMAIN Registry.relationship_indices :
          LET id == Registry.relationship_indices[relationship]
          IN  /\ id < Len(Registry.relationships)
              /\ Registry.relationships[id + 1].kind = relationship[1]
              /\ Registry.relationships[id + 1].target = relationship[2]
    /\ \A a, b \in DOMAIN Registry.relationship_indices :
          a # b => Registry.relationship_indices[a] # Registry.relationship_indices[b]
    /\ \A r \in returned :
          r[1] \in RelationshipOps =>
              /\ r[2] \in DOMAIN Registry.relationship_indices
              /\ Registry.relationship_indices[r[2]] = r[3]

\* The pair (0, 1) was asked for twice, after another pair, and the id 1
\* came back both times.
C25_Witness ==
    /\ relationships_call # <<>>
    /\ LastRegistryCall.op = "get_relationship_info_or_insert_with"
    /\ LastRegistryCall.key = <<0, 1>>
    /\ LastRegistryCall.earlier = {1}
    /\ LastRegistryCall.outcome = "returned"
    /\ LastRegistryCall.id = 1
    /\ Len(Registry.relationships) = 2

KindOrInsertOps ==
    { "get_component_relationship_kind_or_insert",
      "get_resource_relationship_kind_or_insert" }

\* C26: the registration of a kind is idempotent per type: a call of
\* get_component_relationship_kind_or_insert or of
\* get_resource_relationship_kind_or_insert with a type it was called with
\* before returns the kind id it returned before, does not panic and adds no
\* kind.
C26_KindRegistrationIdempotent ==
    \A i \in 1..Len(relationships_call) :
        LET call == relationships_call[i]
        IN  (call.op \in KindOrInsertOps /\ call.earlier # {}) =>
                /\ call.outcome = "returned"
                /\ call.earlier = {call.id}
                /\ Len(Registry.kinds) = Len(call.before.kinds)

\* The second call of get_resource_relationship_kind_or_insert with a type
\* panicked.
C26_Witness ==
    /\ relationships_call # <<>>
    /\ LastRegistryCall.op = "get_resource_relationship_kind_or_insert"
    /\ LastRegistryCall.earlier # {}
    /\ LastRegistryCall.outcome = "panicked"

\* The table a registration of a kind fills: that of its role.
RoleTable(registry, op) ==
    IF op = "get_resource_relationship_kind_or_insert"
    THEN registry.resource_indices ELSE registry.component_indices

\* C27: the kinds of components and of resources are looked up in separate
\* tables: a registration as component leaves the table of the resources as
\* it was and a registration as resource that of the components, the kind a
\* registration returns is the kind the type has in the table of that role,
\* and the two roles of one type have different kind ids.
C27_RolesLookedUpSeparately ==
    /\ \A type_id \in DOMAIN Registry.component_indices \cap DOMAIN Registry.resource_indices :
          Registry.component_indices[type_id] # Registry.resource_indices[type_id]
    /\ \A i \in 1..Len(relationships_call) :
          LET call == relationships_call[i]
          IN  /\ call.op \in { "get_component_relationship_kind_or_insert",
                               "get_component_info_or_insert_with" } =>
                    Registry.resource_indices = call.before.resource_indices
              /\ call.op \in { "get_resource_relationship_kind_or_insert",
                               "get_resource_info_or_insert_with" } =>
                    Registry.component_indices = call.before.component_indices
              /\ (call.op \in KindOrInsertOps /\ call.outcome = "returned") =>
                    MapGet(RoleTable(Registry, call.op), call.key) = << call.id >>

\* A type registered as component was registered as resource: the call
\* returned the kind of the component and the type is no resource.
C27_Witness ==
    /\ relationships_call # <<>>
    /\ LastRegistryCall.op = "get_resource_relationship_kind_or_insert"
    /\ LastRegistryCall.outcome = "returned"
    /\ MapGet(Registry.component_indices, LastRegistryCall.key) = << LastRegistryCall.id >>
    /\ LastRegistryCall.key \notin DOMAIN Registry.resource_indices

\* The labels of a sequence the world had a schedule for, in their order.
HeldBy(schedules, labels) ==
    LET Held(label) == label \in schedules
    IN  SelectSeq(labels, Held)

\* C28: a call of apply_state_transition that finds a queued state other
\* than the current one makes it the current state and runs, of the
\* schedules the world holds, OnExit of the state it left, then
\* OnTransition from the state it left to the state it entered, then
\* OnEnter of the state it entered, each of them once and no other.
C28_ExitTransitionEnterInOrder ==
    \A i \in 1..Len(transition_call) :
        LET call == transition_call[i]
        IN  IF call.queued = <<>> THEN TRUE
            ELSE IF call.queued[1] = call.state THEN TRUE
            ELSE LET exited == call.state
                     entered == call.queued[1]
                 IN  /\ state_resource = entered
                     /\ schedules_ran =
                           HeldBy(call.schedules,
                                  << OnExit(exited), OnTransition(exited, entered),
                                     OnEnter(entered) >>)

\* The state B was queued in the state A, in a world that holds the three
\* schedules of the transition, and the three ran.
C28_Witness ==
    /\ transition_call # <<>>
    /\ state_resource = "B"
    /\ schedules_ran = << OnExit("A"), OnTransition("A", "B"), OnEnter("B") >>

\* C29: over the life of the app the first call of outer_loop runs Startup
\* and then Main, every later call runs Main alone, and the Local of the
\* system says whether there was a call.
C29_StartupOnceThenMain ==
    /\ \A i \in 1..Len(outer_ran) :
          outer_ran[i] = IF i = 1 THEN << "Startup", "Main" >> ELSE << "Main" >>
    /\ run_at_least_once <=> (Len(outer_ran) > 0)

\* outer_loop was called twice: Startup and Main, then Main.
C29_Witness ==
    /\ Len(outer_ran) >= 2
    /\ outer_ran[1] = << "Startup", "Main" >>
    /\ outer_ran[2] = << "Main" >>

\* The containers of the four segments, and those that name the run
\* criteria of a label.
AllSystems ==
    exclusive_at_start \o parallel \o exclusive_before_commands \o exclusive_at_end

GatedBy(label) ==
    { i \in 1..Len(AllSystems) : AllSystems[i].run_criteria_label = label }

StoredAs(label) == { i \in 1..Len(run_criteria) : run_criteria[i].label = label }

\* The stage is initialized: run has taken in every system and run criteria.
StageInitialized ==
    /\ ~systems_modified
    /\ uninitialized_run_criteria = <<>>
    /\ pc # "panicked"

\* No run criteria is evaluated between the evaluation at the head of an
\* iteration and the one at its end.
CriteriaKeptInIteration ==
    (pc \in IterationPhases \ {"ReevaluateLoopingCriteria"}) => run_criteria' = run_criteria

\* C30: in an initialized stage a labelled run criteria is one container of
\* run_criteria, every system that names the label holds the index of that
\* container, the result of the container is written by the evaluations at
\* the head and at the end of an iteration and not in between, and of two
\* systems that name the label and are through with an iteration, both ran
\* or both were skipped.
C30_LabelledCriteriaSharedOnce ==
    /\ [](StageInitialized =>
            \A label \in CriteriaLabels :
                /\ Cardinality(StoredAs(label)) <= 1
                /\ \A i \in GatedBy(label) : StoredAs(label) = { AllSystems[i].run_criteria }
                /\ \A i, j \in GatedBy(label) :
                      (pc \in IterationPhases /\ Settled(AllSystems, i) /\ Settled(AllSystems, j))
                          => AllSystems[i].ran = AllSystems[j].ran)
    /\ [][CriteriaKeptInIteration]_vars

\* Two systems name the label of the one run criteria of the stage; in this
\* iteration the criteria said yes and both have run.
C30_Witness ==
    /\ StageInitialized
    /\ pc \in IterationPhases
    /\ Len(run_criteria) = 1
    /\ run_criteria[1].should_run \in {"Yes", "YesAndCheckAgain"}
    /\ Cardinality(GatedBy(1)) = 2
    /\ \A i \in GatedBy(1) : AllSystems[i].ran = "done"

PipedCriteriaOf(rc) == { i \in 1..Len(rc) : rc[i].inner = "Piped" }

\* C31: in an initialized stage every piped run criteria stands after the
\* criteria that carries the label it pipes from, which is its parent, and
\* in the first iteration of a pass the input it was handed is the result
\* its parent produced in the same evaluation.
C31_PipedAfterParent ==
    StageInitialized =>
        \A i \in PipedCriteriaOf(run_criteria) :
            LET parent == run_criteria[i].parent
            IN  /\ parent \in 1..(i - 1)
                /\ run_criteria[parent].label = run_criteria[i].after
                /\ (pc \in IterationPhases /\ first_iteration) =>
                      run_criteria[i].input = run_criteria[parent].should_run

\* A chain of three: the criteria labelled 1, the pipe from it labelled 2
\* and the pipe from that one, evaluated with a result handed down at each
\* step.
C31_Witness ==
    /\ StageInitialized
    /\ pc \in IterationPhases
    /\ first_iteration
    /\ Len(run_criteria) = 3
    /\ run_criteria[2].parent = 1
    /\ run_criteria[3].parent = 2
    /\ run_criteria[1].should_run = "YesAndCheckAgain"
    /\ run_criteria[2].input = "YesAndCheckAgain"
    /\ run_criteria[2].should_run = "No"
    /\ run_criteria[3].input = "No"

\* The systems at the start that name the run criteria of a label, and those
\* that hold a criteria without label.
LabelGated(label) ==
    { i \in 1..Len(exclusive_at_start) : exclusive_at_start[i].run_criteria_label = label }

OwnGated ==
    { i \in 1..Len(exclusive_at_start) :
        exclusive_at_start[i].run_criteria_label = 0 /\ exclusive_at_start[i].run_criteria # 0 }

FirstOf(ids) == CHOOSE a \in ids : \A b \in ids : a <= b

\* C32: in an initialized stage whose systems brought their run criteria
\* along, the criteria of one label that were added with
\* label_discard_if_duplicate are one container, the one of the system
\* registered first, every system that brought a criteria of that label
\* holds the index of that container, and every system that brought a
\* criteria without label holds the index of the criteria it brought.
C32_DuplicateDiscarded ==
    StageInitialized =>
        /\ Cardinality(StoredAs(1)) = IF LabelGated(1) = {} THEN 0 ELSE 1
        /\ Len(run_criteria) = Cardinality(OwnGated) + Cardinality(StoredAs(1))
        /\ \A i \in LabelGated(1) :
              /\ StoredAs(1) = { exclusive_at_start[i].run_criteria }
              /\ run_criteria[exclusive_at_start[i].run_criteria].name =
                    FirstOf({ exclusive_at_start[j].id : j \in LabelGated(1) })
        /\ \A i \in OwnGated :
              /\ exclusive_at_start[i].run_criteria \in 1..Len(run_criteria)
              /\ run_criteria[exclusive_at_start[i].run_criteria].label = 0
              /\ run_criteria[exclusive_at_start[i].run_criteria].name = exclusive_at_start[i].id

\* The first two systems brought criteria of the label, the third one a
\* criteria of its own behind the dropped one: the stage holds two criteria,
\* the first two systems share the one of the first, and the third system
\* holds its own under a new index.
C32_Witness ==
    /\ StageInitialized
    /\ Len(run_criteria) = 2
    /\ \E i, j, k \in 1..Len(exclusive_at_start) :
          /\ exclusive_at_start[i].id = 1 /\ exclusive_at_start[j].id = 2
          /\ exclusive_at_start[k].id = 3
          /\ exclusive_at_start[i].run_criteria_label = 1
          /\ exclusive_at_start[j].run_criteria_label = 1
          /\ exclusive_at_start[i].run_criteria = exclusive_at_start[j].run_criteria
          /\ run_criteria[exclusive_at_start[i].run_criteria].name = 1
          /\ exclusive_at_start[k].run_criteria_label = 0
          /\ exclusive_at_start[k].run_criteria # 3
          /\ run_criteria[exclusive_at_start[k].run_criteria].name = 3

\* C33: QueryState::new panics for the query of &mut T and &Relation<T> of
\* one kind, whichever of the two terms comes first.
C33_MutAndRelationPanic ==
    \A kind \in QueryKinds :
        query_shape \in { << TupleOf(<< WriteOf(kind), RelationOf(kind) >>) >>,
                          << TupleOf(<< RelationOf(kind), WriteOf(kind) >>) >> }
            => query_outcome = "panicked"

\* world.query::<(&mut A, &Relation<A>)>() returned a QueryState whose
\* access holds the kind as written.
C33_Witness ==
    /\ query_shape = << TupleOf(<< WriteOf("A"), RelationOf("A") >>) >>
    /\ query_outcome = "initialized"
    /\ "A" \in query_access.writes

\* C34: a call of check_change_ticks at the end of an iteration of the
\* system loop runs the maintenance pass only when more than u32::MAX / 8
\* ticks went by since the last pass, and no more than u32::MAX / 4 ticks
\* have gone by since the last pass when an iteration ends, in a stage of
\* fewer than u32::MAX / 8 systems that advance the tick by one each.
C34_CheckBetweenEighthAndQuarter ==
    last_check # <<>> =>
        /\ last_check[1].pass => last_check[1].elapsed > StageTickMax \div 8
        /\ last_check[1].elapsed <= StageTickMax \div 4
        /\ last_check[1].time_since_last_check = last_check[1].elapsed

\* The pass ran at the end of an iteration in which every system of a full
\* stage ran, as late as it can.
C34_Witness ==
    /\ last_check # <<>>
    /\ last_check[1].pass
    /\ last_check[1].elapsed = 2 * (StageTickMax \div 8) - 1
    /\ ticks_since_check = 0
    /\ last_tick_check = world_change_tick
    /\ world_change_tick < 2 * (StageTickMax \div 8)

\* C35: a state that a system of the OnExit, OnTransition or OnEnter schedule
\* queues while apply_state_transition runs them is not applied by that
\* call, whose State is the state it took out of NextState, and is not
\* discarded: it is in NextState when the call returns, and the next call
\* that finds it there makes it the State.
C35_QueuedDuringTransitionWaits ==
    [][ ApplyStateTransition =>
          /\ transition_call'[1].queued_by_schedules # <<>> =>
                /\ next_state_resource' = transition_call'[1].queued_by_schedules
                /\ state_resource' = next_state_resource[1]
          /\ ( /\ transition_call # <<>>
               /\ transition_call[1].queued_by_schedules # <<>>
               /\ next_state_resource = transition_call[1].queued_by_schedules ) =>
                state_resource' = next_state_resource[1]
      ]_vars

\* The call took B out of NextState and made it the State, a system of the
\* OnEnter(B) schedule queued A, and A is in NextState after the call.
C35_Witness ==
    /\ transition_call # <<>>
    /\ transition_call[1].queued = << "B" >>
    /\ transition_call[1].state = "A"
    /\ schedules_ran = << OnEnter("B") >>
    /\ transition_call[1].queued_by_schedules = << "A" >>
    /\ state_resource = "B"
    /\ next_state_resource = << "A" >>

\* C36: a call of apply_state_transition that finds the State itself queued
\* empties NextState, leaves State as it is and runs no schedule.
C36_SameStateNoTransition ==
    [][ (ApplyStateTransition /\ next_state_resource = << state_resource >>) =>
          /\ next_state_resource' = <<>>
          /\ state_resource' = state_resource
          /\ schedules_ran' = <<>>
      ]_vars

\* The last call found the State queued in a world that holds the OnExit and
\* the OnEnter schedule of that state: NextState is empty and marked as
\* changed, and no schedule ran.
C36_Witness ==
    /\ transition_call # <<>>
    /\ transition_call[1].queued = << transition_call[1].state >>
    /\ { OnExit(state_resource), OnEnter(state_resource) } \subseteq world_schedules
    /\ state_resource = transition_call[1].state
    /\ next_state_resource = <<>>
    /\ next_state_changed
    /\ schedules_ran = <<>>

\* The elements of a sequence.
ElementsOf(seq) == { seq[i] : i \in 1..Len(seq) }

\* C38: two SystemOrderAmbiguity values compare equal exactly if they name
\* the same two systems in either order, hold the same set of conflicts in
\* any order and have the same segment.
C38_EqualIffSameAmbiguity ==
    eq_call # <<>> =>
        LET self == eq_call[1].self
            other == eq_call[1].other
        IN  eq_call[1].equal <=>
              /\ sort(self.system_names) = sort(other.system_names)
              /\ ElementsOf(self.conflicts) = ElementsOf(other.conflicts)
              /\ self.segment = other.segment

\* Two values of the parallel segment that share no system and no conflict
\* compared equal, with different hashes.
C38_Witness ==
    /\ eq_call # <<>>
    /\ eq_call[1].self = [system_names |-> << 1, 2 >>, conflicts |-> << 1 >>,
                          segment |-> "Parallel"]
    /\ eq_call[1].other = [system_names |-> << 3, 3 >>, conflicts |-> << 2 >>,
                           segment |-> "Parallel"]
    /\ eq_call[1].equal
    /\ ~eq_call[1].same_hash

\* func was called once for every row of the matched tables that passes the
\* filter and for no other row.
CalledOncePerRow ==
    \A row \in DOMAIN par_calls :
        par_calls[row] = IF row[2] \in par_input[1].passing THEN 1 ELSE 0

\* The statement as it stands: for every batch_size the call returns, and
\* func was called once for every row that passes the filter.
C39_TerminatesForEveryBatchSize ==
    /\ (par_pc = "for") ~> (par_pc = "done")
    /\ [](par_pc = "done" => CalledOncePerRow)

\* C39: for every batch_size of at least one, par_for_each_unchecked_manual
\* returns and has called func once for every row of a matched table that
\* passes the filter: the batches cover the rows of a table without gap and
\* without overlap.  With batch_size zero the call returns only if every
\* matched table is empty.
C39_TerminatesForPositiveBatchSize ==
    /\ (par_pc = "for" /\ par_input[1].batch_size >= 1) ~> (par_pc = "done")
    /\ [](par_pc = "done" => CalledOncePerRow)
    /\ []((par_pc = "done" /\ par_input[1].batch_size = 0) => DOMAIN par_calls = {})

\* A call with batches of one row returned: the two rows of the first table
\* and the one of the second were in three batches, and func was called for
\* the rows that pass the filter.
C39_Witness ==
    /\ par_pc = "done"
    /\ par_input[1].batch_size = 1
    /\ par_input[1].lens = << 2, 1 >>
    /\ par_input[1].passing = {0}
    /\ par_calls[<<1, 0>>] = 1 /\ par_calls[<<1, 1>>] = 0 /\ par_calls[<<2, 0>>] = 1

\* The render entities that carry MainEntity(e).
RenderEntitiesOf(e) == { r \in DOMAIN main_entity : main_entity[r] = e }

\* After a sync, a live main entity of the set has one render entity, to
\* which its RenderEntity refers, and a despawned one that was synchronized
\* has none.
SyncedOneToOne(mains) ==
    sync_state = "synced" =>
        \A e \in mains :
            IF e \in main_alive
            THEN /\ e \in DOMAIN render_entity
                 /\ RenderEntitiesOf(e) = { render_entity[e] }
            ELSE RenderEntitiesOf(e) = {}

C37_RunTerminates == (pc # "idle") ~> (pc = "idle")

\* A run in its second iteration of the system loop or later, with a system
\* run criteria that has just asked to be checked again.
C37_Witness ==
    /\ pc = "RunExclusiveAtStart"
    /\ ~first_iteration
    /\ \E i \in 1..Len(run_criteria) : run_criteria[i].should_run \in CheckAgain

====
